---------------------------- MODULE Spec2Model ----------------------------
(***************************************************************************)
(* A model of the IMDb crawl engine:                                       *)
(*   - IMDbCrawler (src/imdb_crawler.py): the catalog page loop            *)
(*     get_vietnamese_movies, the fetcher _fetch_movies_page, the          *)
(*     extraction rule _extract_movie_data and the checkpoint              *)
(*     _save_progress;                                                     *)
(*   - UserReviewCrawler (src/user_review_crawler.py): the per-item page   *)
(*     loop get_movie_reviews;                                             *)
(*   - MovieDetailCrawler (src/movie_detail_crawler.py): the runtime       *)
(*     computation of get_movie_details.                                   *)
(* The remote API, the browser session and the file system are the         *)
(* environment: every response and every write outcome is chosen           *)
(* nondeterministically from a bounded set.                                *)
(***************************************************************************)
EXTENDS Integers, Sequences, FiniteSets, TLC

(***************************************************************************)
(* JSON values, as Python sees them after json.loads.  An object is a      *)
(* function from its keys to values, so an absent key is a key outside     *)
(* DOMAIN; a key present with null maps to JNull.                          *)
(***************************************************************************)
JNull == [t |-> "null"]

JBool(b) == [t |-> "bool", b |-> b]

JStr(s) == [t |-> "str", s |-> s]

JInt(n) == [t |-> "int", n |-> n]

JList(l) == [t |-> "list", l |-> l]

JObj(f) == [t |-> "obj", o |-> f]

EmptyObj == JObj(<<>>)

EmptyList == JList(<<>>)

\* The outcome "an exception was raised" of evaluating a Python expression.
Raise == [t |-> "raise"]

IsObj(v) == v.t = "obj"

\* Python truthiness: None, False, 0, "", {} and [] are falsy.
Truthy(v) ==
    CASE v.t = "null" -> FALSE
      [] v.t = "bool" -> v.b
      [] v.t = "str"  -> v.s # ""
      [] v.t = "int"  -> v.n # 0
      [] v.t = "list" -> Len(v.l) > 0
      [] v.t = "obj"  -> DOMAIN v.o # {}
      [] OTHER        -> FALSE

\* Then(x) for x the value of the expression: the value is computed once and
\* named, as an assignment to a local variable does.
Bind(value, Then(_)) == CHOOSE r \in {Then(x) : x \in {value}} : TRUE

\* key in d, for a dict d.
HasKey(v, k) == IsObj(v) /\ k \in DOMAIN v.o

\* d.get(k, default): raises AttributeError when d is not a dict (None, a
\* string, a number, a list).
PyGet(v, k, default) ==
    IF ~IsObj(v) THEN Raise
    ELSE IF k \in DOMAIN v.o THEN v.o[k] ELSE default

\* d.get(k, default) if d else otherwise
PyGetIf(v, k, default, otherwise) ==
    IF Truthy(v) THEN PyGet(v, k, default) ELSE otherwise


\* k in v.  On a dict it tests the keys, on a list the elements; on a
\* string it is a substring test (the strings of this model are atoms, so
\* only the string itself contains k); None and numbers raise TypeError.
PyIn(k, v) ==
    CASE v.t = "obj"  -> JBool(k \in DOMAIN v.o)
      [] v.t = "list" -> JBool(\E i \in 1..Len(v.l) : v.l[i] = JStr(k))
      [] v.t = "str"  -> JBool(v.s = k)
      [] OTHER        -> Raise

(***************************************************************************)
(* ExtractionRules: IMDbCrawler._extract_movie_data.                       *)
(***************************************************************************)

\* FloorDiv60 with the bug of a division that truncates toward zero.
FloorDiv60Truncating(n) == IF n >= 0 THEN n \div 60 ELSE 0 - ((0 - n) \div 60)

\* seconds // 60: Python's floor division, which \div is for a positive
\* divisor.
FloorDiv60(n) == n \div 60

\* runtime.get('seconds', 0) // 60 if runtime and runtime.get('seconds') else 0
\* (imdb_crawler.py:224).  A truthy non-dict runtime raises on .get, a truthy
\* non-numeric seconds raises on //.
RuntimeMinutes(runtime) ==
    IF ~Truthy(runtime) THEN JInt(0)
    ELSE Bind(PyGet(runtime, "seconds", JInt(0)), LAMBDA seconds :
             IF seconds = Raise THEN Raise
             ELSE IF ~Truthy(seconds) THEN JInt(0)
             ELSE IF seconds.t = "int" THEN JInt(FloorDiv60(seconds.n))
             ELSE IF seconds.t = "bool" THEN JInt(FloorDiv60(1))
             ELSE Raise)

\* runtime = above_fold_data.get('runtime') or {} followed by
\* runtime.get('seconds', 0) // 60 if runtime.get('seconds') else 0
\* (movie_detail_crawler.py:68 and :91).
DetailRuntimeMinutes(above_fold_data) ==
    Bind(PyGet(above_fold_data, "runtime", JNull), LAMBDA got :
    Bind(IF got # Raise /\ ~Truthy(got) THEN EmptyObj ELSE got, LAMBDA runtime :
    Bind(PyGet(runtime, "seconds", JInt(0)), LAMBDA seconds :
        IF seconds = Raise THEN Raise
        ELSE IF ~Truthy(seconds) THEN JInt(0)
        ELSE IF seconds.t = "int" THEN JInt(FloorDiv60(seconds.n))
        ELSE IF seconds.t = "bool" THEN JInt(FloorDiv60(1))
        ELSE Raise)))

\* The filter of the genre comprehension (imdb_crawler.py:235):
\* genre and isinstance(genre, dict) and 'genre' in genre
GenreKept(genre) == Truthy(genre) /\ IsObj(genre) /\ HasKey(genre, "genre")

\* The element of the genre comprehension (imdb_crawler.py:233):
\* genre.get('genre', {}).get('text', '')
GenreText(genre) ==
    Bind(PyGet(genre, "genre", EmptyObj), LAMBDA inner :
        IF inner = Raise THEN Raise ELSE PyGet(inner, "text", JStr("")))

\* What "for genre in x" iterates: the elements of a list; the keys of a
\* dict and the characters of a string are strings, which the filter drops,
\* so both iterate as nothing kept; None and numbers are not iterable.
GenreItems(x) ==
    CASE x.t = "list" -> x
      [] x.t = "obj"  -> EmptyList
      [] x.t = "str"  -> EmptyList
      [] OTHER        -> Raise

\* imdb_crawler.py:230-236: the genre list, [] unless genres_data is truthy
\* and holds 'genres'.
ExtractGenres(genres_data) ==
    IF ~Truthy(genres_data) THEN EmptyList
    ELSE Bind(PyIn("genres", genres_data), LAMBDA has :
        IF has = Raise THEN Raise
        ELSE IF ~has.b THEN EmptyList
        ELSE IF ~IsObj(genres_data) THEN Raise
        ELSE Bind(GenreItems(genres_data.o["genres"]), LAMBDA items :
            IF items = Raise THEN Raise
            ELSE Bind(SelectSeq(items.l, GenreKept), LAMBDA kept :
                 Bind([i \in 1..Len(kept) |-> GenreText(kept[i])], LAMBDA texts :
                    IF \E i \in 1..Len(kept) : texts[i] = Raise
                    THEN Raise
                    ELSE JList(texts)))))

\* imdb_crawler.py:238-242: the plot text, '' unless plot_data and its
\* plotText are truthy.
ExtractPlot(plot_data) ==
    IF ~Truthy(plot_data) THEN JStr("")
    ELSE Bind(PyGet(plot_data, "plotText", EmptyObj), LAMBDA plot_text :
        IF plot_text = Raise THEN Raise
        ELSE IF ~Truthy(plot_text) THEN JStr("")
        ELSE PyGet(plot_text, "plainText", JStr("")))

\* imdb_crawler.py:209-228: the record built from a title dict.
BuildMovieData(title) ==
    Bind(PyGet(title, "titleText", EmptyObj), LAMBDA title_text :
    Bind(PyGet(title, "releaseYear", EmptyObj), LAMBDA release_year :
    Bind(PyGet(title, "ratingsSummary", EmptyObj), LAMBDA ratings_summary :
    Bind(PyGet(title, "runtime", EmptyObj), LAMBDA runtime :
    Bind(PyGet(title, "titleGenres", EmptyObj), LAMBDA genres_data :
    Bind(PyGet(title, "plot", EmptyObj), LAMBDA plot_data :
    Bind(PyGet(title, "primaryImage", JNull), LAMBDA primary_image :
        [id              |-> PyGet(title, "id", JStr("")),
         title           |-> PyGetIf(title_text, "text", JStr(""), JStr("")),
         year            |-> PyGetIf(release_year, "year", JStr(""), JStr("")),
         rating          |-> PyGetIf(ratings_summary, "aggregateRating", JNull, JNull),
         votes           |-> PyGetIf(ratings_summary, "voteCount", JInt(0), JInt(0)),
         runtime_minutes |-> RuntimeMinutes(runtime),
         genres          |-> ExtractGenres(genres_data),
         plot            |-> ExtractPlot(plot_data),
         primary_image   |-> PyGetIf(primary_image, "url", JStr(""), JStr(""))])))))))

MovieFields ==
    {"id", "title", "year", "rating", "votes", "runtime_minutes", "genres",
     "plot", "primary_image"}

\* The outcomes of the try block of _extract_movie_data: it raised, it
\* counted an error and returned None, or it returned the record.
Raised == [kind |-> "raise", val |-> JNull, errs |-> 0]

Dropped == [kind |-> "return", val |-> JNull, errs |-> 1]

Extracted(movie_data) == [kind |-> "return", val |-> JObj(movie_data), errs |-> 0]

\* The body of the try block of _extract_movie_data (imdb_crawler.py:194-249)
\* from the title on.  No increment precedes a raising expression.
ExtractTitle(title) ==
    IF title = Raise THEN Raised
    ELSE IF ~Truthy(title) THEN Dropped
    ELSE IF ~IsObj(title) THEN Raised
    ELSE Bind(BuildMovieData(title), LAMBDA movie_data :
        IF \E f \in MovieFields : movie_data[f] = Raise THEN Raised
        ELSE IF ~Truthy(movie_data.id) \/ ~Truthy(movie_data.title) THEN Dropped
        ELSE Extracted(movie_data))

\* The body of the try block of _extract_movie_data (imdb_crawler.py:194-249).
ExtractTry(movie_edge) ==
    IF ~Truthy(movie_edge) THEN Dropped
    ELSE Bind(PyIn("node", movie_edge), LAMBDA has :
        IF has = Raise THEN Raised
        ELSE IF ~has.b THEN Dropped
        ELSE IF ~IsObj(movie_edge) THEN Raised
        ELSE Bind(movie_edge.o["node"], LAMBDA node :
            IF ~Truthy(node) THEN Dropped
            ELSE Bind(PyGet(node, "title", EmptyObj), ExtractTitle)))

\* ExtractCaught with the bug of an except clause that forgets to count.
ExtractCaughtUncounted(r) ==
    IF r.kind = "raise"
    THEN [ret |-> JNull, errs |-> r.errs, raised |-> FALSE]
    ELSE [ret |-> r.val, errs |-> r.errs, raised |-> FALSE]

\* What the except clause of _extract_movie_data (imdb_crawler.py:251-253)
\* makes of the outcome r of the try block: every exception becomes one
\* increment and a None.
ExtractCaught(r) ==
    IF r.kind = "raise"
    THEN [ret |-> JNull, errs |-> r.errs + 1, raised |-> FALSE]
    ELSE [ret |-> r.val, errs |-> r.errs, raised |-> FALSE]

\* _extract_movie_data (imdb_crawler.py:192-253): [ret, errs, raised], where
\* ret is the record or None, errs the increments of error_count, and raised
\* whether an exception left the function.
ExtractMovieData(movie_edge) == Bind(ExtractTry(movie_edge), ExtractCaught)

(***************************************************************************)
(* DetailEnricher: MovieDetailCrawler.get_movie_details.                   *)
(***************************************************************************)

\* x or {} (movie_detail_crawler.py:60-71), for x the outcome of a .get.
OrEmpty(v) == IF v = Raise THEN Raise ELSE IF Truthy(v) THEN v ELSE EmptyObj

\* d.get(k) or {}
GetOrEmpty(d, k) == OrEmpty(PyGet(d, k, JNull))

\* The filter of the countries comprehension (movie_detail_crawler.py:86):
\* country and isinstance(country, dict)
CountryKept(country) == Truthy(country) /\ IsObj(country)

\* movie_detail_crawler.py:83-87: the texts of the countries;
\* countries_data is a dict, its 'countries' a list in every payload that
\* has it, and anything else that is not iterable raises.
ExtractCountries(countries_data) ==
    Bind(PyGet(countries_data, "countries", EmptyList), LAMBDA countries :
        IF countries = Raise \/ countries.t # "list" THEN Raise
        ELSE Bind(SelectSeq(countries.l, CountryKept), LAMBDA kept :
                 JList([i \in 1..Len(kept) |-> PyGet(kept[i], "text", JStr(""))])))

\* The link of a record: the f-string over movie_id
\* (movie_detail_crawler.py:94).
LinkOf(movie_id) == [t |-> "link", id |-> movie_id]

\* datetime.now().isoformat() (movie_detail_crawler.py:95): the clock is not
\* modelled, every timestamp is the same token.
Now == [t |-> "timestamp"]

\* movie_detail_crawler.py:59-96: the details dict before the merge, every
\* field the outcome of its expression.
FreshDetails(movie_id, original_data, above_fold_data, main_column_data) ==
    Bind(GetOrEmpty(above_fold_data, "titleText"), LAMBDA title_text :
    Bind(GetOrEmpty(above_fold_data, "originalTitleText"), LAMBDA original_title_text :
    Bind(GetOrEmpty(above_fold_data, "releaseYear"), LAMBDA release_year :
    Bind(GetOrEmpty(above_fold_data, "ratingsSummary"), LAMBDA ratings_summary :
    Bind(GetOrEmpty(above_fold_data, "reviews"), LAMBDA reviews :
    Bind(GetOrEmpty(above_fold_data, "criticReviews"), LAMBDA critic_reviews :
    Bind(GetOrEmpty(above_fold_data, "certificate"), LAMBDA certificate :
    Bind(GetOrEmpty(above_fold_data, "meterRanking"), LAMBDA meter_ranking :
    Bind(GetOrEmpty(main_column_data, "countriesOfOrigin"), LAMBDA countries_data :
        [id                   |-> movie_id,
         name                 |-> PyGet(title_text, "text", JStr("")),
         original_title       |-> PyGet(original_title_text, "text", JStr("")),
         year                 |-> PyGet(release_year, "year", JStr("")),
         rating               |-> PyGet(ratings_summary, "aggregateRating", JNull),
         votes                |-> PyGet(ratings_summary, "voteCount", JInt(0)),
         user_reviews_count   |-> PyGet(reviews, "total", JInt(0)),
         critic_reviews_count |-> PyGet(critic_reviews, "total", JInt(0)),
         countries            |-> IF countries_data = Raise THEN Raise
                                  ELSE ExtractCountries(countries_data),
         certificate          |-> PyGet(certificate, "rating", JStr("")),
         popularity_rank      |-> PyGet(meter_ranking, "currentRank", JNull),
         genres               |-> PyGet(original_data, "genres", EmptyList),
         runtime_minutes      |-> DetailRuntimeMinutes(above_fold_data),
         plot                 |-> PyGet(original_data, "plot", JStr("")),
         primary_image        |-> PyGet(original_data, "primary_image", JStr("")),
         link                 |-> LinkOf(movie_id),
         last_updated         |-> Now])))))))))

DetailFields ==
    {"id", "name", "original_title", "year", "rating", "votes",
     "user_reviews_count", "critic_reviews_count", "countries", "certificate",
     "popularity_rank", "genres", "runtime_minutes", "plot", "primary_image",
     "link", "last_updated"}

\* MergeDetails with the bug of filling a missing year from the catalog
\* record as well.
MergeDetailsFillingYear(details, original_data) ==
    Bind(IF ~Truthy(details.rating) THEN PyGet(original_data, "rating", JNull)
         ELSE details.rating, LAMBDA rating :
    Bind(IF ~Truthy(details.votes) THEN PyGet(original_data, "votes", JNull)
         ELSE details.votes, LAMBDA votes :
    Bind(IF ~Truthy(details.name) THEN PyGet(original_data, "title", JStr(""))
         ELSE details.name, LAMBDA name :
    Bind(IF ~Truthy(details.original_title) THEN name
         ELSE details.original_title, LAMBDA original_title :
    Bind(IF ~Truthy(details.year) THEN PyGet(original_data, "year", JStr(""))
         ELSE details.year, LAMBDA year :
        [details EXCEPT !.rating = rating, !.votes = votes, !.name = name,
                        !.original_title = original_title, !.year = year])))))

\* MergeDetails with the bug of testing for None instead of for a falsy
\* value: a fresh 0 or '' is kept.
MergeDetailsOnlyNone(details, original_data) ==
    Bind(IF details.rating = JNull THEN PyGet(original_data, "rating", JNull)
         ELSE details.rating, LAMBDA rating :
    Bind(IF details.votes = JNull THEN PyGet(original_data, "votes", JNull)
         ELSE details.votes, LAMBDA votes :
    Bind(IF details.name = JNull THEN PyGet(original_data, "title", JStr(""))
         ELSE details.name, LAMBDA name :
    Bind(IF details.original_title = JNull THEN name
         ELSE details.original_title, LAMBDA original_title :
        [details EXCEPT !.rating = rating, !.votes = votes, !.name = name,
                        !.original_title = original_title]))))

\* movie_detail_crawler.py:98-106: a falsy rating, votes or name is replaced
\* by the catalog's rating, votes or title, a falsy original_title by the
\* name this leaves.
MergeDetails(details, original_data) ==
    Bind(IF ~Truthy(details.rating) THEN PyGet(original_data, "rating", JNull)
         ELSE details.rating, LAMBDA rating :
    Bind(IF ~Truthy(details.votes) THEN PyGet(original_data, "votes", JNull)
         ELSE details.votes, LAMBDA votes :
    Bind(IF ~Truthy(details.name) THEN PyGet(original_data, "title", JStr(""))
         ELSE details.name, LAMBDA name :
    Bind(IF ~Truthy(details.original_title) THEN name
         ELSE details.original_title, LAMBDA original_title :
        [details EXCEPT !.rating = rating, !.votes = votes, !.name = name,
                        !.original_title = original_title]))))

\* movie_detail_crawler.py:59-115 from the two data sections on: None on an
\* exception (:117-133) or a missing id or name (:109-112), else the record.
DetailsFrom(movie_id, original_data, above_fold_data, main_column_data) ==
    Bind(FreshDetails(movie_id, original_data, above_fold_data, main_column_data),
         LAMBDA details :
        IF \E f \in DetailFields : details[f] = Raise THEN JNull
        ELSE Bind(MergeDetails(details, original_data), LAMBDA merged :
                 IF ~Truthy(merged.id) \/ ~Truthy(merged.name) THEN JNull
                 ELSE JObj(merged)))

\* get_movie_details (movie_detail_crawler.py:30-133) for the outcome
\* json_data of loading the page and parsing its __NEXT_DATA__ (:35-43),
\* Raise when the navigation, the wait or the parsing raised: the record, or
\* None.  Every exception is caught at :117; the debug dump of :120-132 is
\* best effort and changes nothing the crawler reads.
GetMovieDetails(movie_id, original_data, json_data) ==
    IF json_data = Raise THEN JNull
    ELSE Bind(PyGet(json_data, "props", EmptyObj), LAMBDA props :
         Bind(IF props = Raise THEN Raise ELSE PyGet(props, "pageProps", EmptyObj),
              LAMBDA page_props :
            IF page_props = Raise THEN JNull
            ELSE IF ~Truthy(page_props) THEN JNull
            ELSE Bind(PyGet(page_props, "aboveTheFoldData", JNull), LAMBDA above_fold_data :
                 Bind(PyGet(page_props, "mainColumnData", JNull), LAMBDA main_column_data :
                    IF above_fold_data = Raise \/ main_column_data = Raise THEN JNull
                    ELSE IF ~Truthy(above_fold_data) \/ ~Truthy(main_column_data) THEN JNull
                    ELSE DetailsFrom(movie_id, original_data,
                                     above_fold_data, main_column_data)))))

\* Whether the try block of get_movie_details (movie_detail_crawler.py:
\* 31-115) raises, which takes the call to the except clause at :117.
TryRaises(movie_id, original_data, json_data) ==
    IF json_data = Raise THEN TRUE
    ELSE Bind(PyGet(json_data, "props", EmptyObj), LAMBDA props :
         Bind(IF props = Raise THEN Raise ELSE PyGet(props, "pageProps", EmptyObj),
              LAMBDA page_props :
            IF page_props = Raise THEN TRUE
            ELSE IF ~Truthy(page_props) THEN FALSE
            ELSE Bind(PyGet(page_props, "aboveTheFoldData", JNull), LAMBDA above_fold_data :
                 Bind(PyGet(page_props, "mainColumnData", JNull), LAMBDA main_column_data :
                    IF above_fold_data = Raise \/ main_column_data = Raise THEN TRUE
                    ELSE IF ~Truthy(above_fold_data) \/ ~Truthy(main_column_data) THEN FALSE
                    ELSE Bind(FreshDetails(movie_id, original_data,
                                           above_fold_data, main_column_data),
                              LAMBDA details : \E f \in DetailFields : details[f] = Raise)))))

\* What can become of the debug dump of one call (movie_detail_crawler.py:
\* 120-132): it is not attempted when the try block did not raise; else it
\* is written, or reading the page source or writing the file raises.
DebugDumps(movie_id, original_data, json_data) ==
    IF TryRaises(movie_id, original_data, json_data) THEN {"written", "failed"} ELSE {"none"}

\* CaughtDetails with the bug of a dump whose failure is not caught.
CaughtDetailsUnlessDumpFails(snapshot) == IF snapshot = "failed" THEN Raise ELSE JNull

\* What the except clause returns (movie_detail_crawler.py:117-133): None,
\* the failure of the dump being caught at :131-132.
CaughtDetails(snapshot) == JNull

\* get_movie_details with its debug dump.
GetMovieDetailsDumping(movie_id, original_data, json_data, snapshot) ==
    IF TryRaises(movie_id, original_data, json_data) THEN CaughtDetails(snapshot)
    ELSE GetMovieDetails(movie_id, original_data, json_data)

(***************************************************************************)
(* State.                                                                  *)
(***************************************************************************)
VARIABLES
    \* IMDbCrawler.get_vietnamese_movies
    pc,             \* "FETCHING", "RETRY_WAIT" (the sleep before continue) or "DONE"
    after_token,    \* the cursor, None at first
    has_next,       \* the loop condition
    page_errors,    \* the page-level error counter
    all_movies,     \* self.all_movies, the accumulator
    error_count,    \* self.error_count
    progress_file,  \* the content of vietnamese_movies_progress.json
    \* what the environment and an observer record of the catalog run
    fetch_calls,    \* how many requests _fetch_movies_page issued
    last_request,   \* the cursor given to, and the "after" variable sent by, the last fetch
    last_resp,      \* what was observed of the response to the last request
    last_outcome,   \* how the last loop iteration ended
    session_renewed,\* whether _init_session ran in the last iteration
    ok_pages,       \* how many pages were processed to the end
    ok_records,     \* the valid records of those pages, in order
    saves,          \* how many times _save_progress was called
    last_save       \* how the last call of _save_progress ended

catVars ==
    <<pc, after_token, has_next, page_errors, all_movies, error_count,
      progress_file, fetch_calls, last_request, last_resp, last_outcome,
      session_renewed, ok_pages, ok_records, saves, last_save>>

VARIABLES
    \* the extraction rules called on their own
    x_calls,        \* how many calls were made
    x_fn,           \* the rule called last
    x_arg,          \* what it was called on
    x_ret           \* what it gave

xVars == <<x_calls, x_fn, x_arg, x_ret>>

VARIABLES
    \* UserReviewCrawler.get_movie_reviews, for one movie
    rv_pc,            \* "IDLE", "FETCHING" or "RETURNED"
    rv_movie_id,      \* the movie_id argument
    rv_after_token,   \* the cursor, "" at first
    rv_has_next,      \* the loop condition
    rv_all_reviews,   \* the local accumulator all_reviews, returned at the end
    rv_page,          \* the page counter of the log lines
    \* what the environment and an observer record of the review run
    rv_fetch_calls,   \* how many requests _fetch_reviews_page issued
    rv_last_request,  \* the "after" variable the last request sent
    rv_last_resp,     \* what was observed of the response to the last request
    rv_last_outcome   \* how the last loop iteration ended

rvVars ==
    <<rv_pc, rv_movie_id, rv_after_token, rv_has_next, rv_all_reviews, rv_page,
      rv_fetch_calls, rv_last_request, rv_last_resp, rv_last_outcome>>

VARIABLES
    \* MovieDetailCrawler.process_movies_file and main
    d_pc,             \* "IDLE", "READING", "LOOP", "RETURNED", "ABORTED" or "EXITED"
    d_input,          \* what reading and parsing input_file gives
    d_idx,            \* how many items of the input the loop has taken
    detailed_movies,  \* the local accumulator detailed_movies
    d_file,           \* the content of output_file
    d_driver,         \* the browser session: "open" or "quit"
    d_ret,            \* what process_movies_file returned
    \* what an observer records of the batch
    d_checkpoints,    \* the calls of _save_progress: after which item, final or not
    d_attempts,       \* the movie_id of every call of get_movie_details, in order
    d_outcomes,       \* what every call of get_movie_details returned, in order
    d_navigations,    \* how many times driver.get was called
    d_last_save,      \* how the last call of _save_progress ended
    d_quits,          \* how many times driver.quit was called
    d_last_attempt    \* of the last call of get_movie_details: what the page load
                      \* gave, and what became of the debug dump

dVars ==
    <<d_pc, d_input, d_idx, detailed_movies, d_file, d_driver, d_ret,
      d_checkpoints, d_attempts, d_outcomes, d_navigations, d_last_save, d_quits,
      d_last_attempt>>

VARIABLES
    \* UserReviewCrawler.crawl_movies_reviews
    rc_pc,            \* "IDLE", "READING", "NEXT_ITEM", "IN_ITEM", "RETURNED" or "ABORTED"
    rc_input,         \* what reading and parsing input_file gives
    rc_idx,           \* how many items of the input the loop has completed
    rc_all_reviews,   \* the local accumulator all_reviews
    rc_file,          \* the content of output_file
    rc_ret,           \* what crawl_movies_reviews returned
    \* what an observer records of the batch
    rc_item_reviews,  \* what every call of get_movie_reviews returned, in order
    rc_saves,         \* how many times _save_reviews was called
    rc_last_save,     \* how the last call of _save_reviews ended
    rc_visits         \* of every call of get_movie_reviews, in order: the movie_id
                      \* it was given and how its page loop ended

rcVars ==
    <<rc_pc, rc_input, rc_idx, rc_all_reviews, rc_file, rc_ret,
      rc_item_reviews, rc_saves, rc_last_save, rc_visits>>

(***************************************************************************)
(* The environment of the catalog phase: what the remote can answer.       *)
(***************************************************************************)

\* The most requests one run of the model issues.
MaxFetch == 4

\* A well-formed edge: {node: {title: {id, titleText: {text}}}}.
Edge(id, text) ==
    JObj([node |-> JObj([title |->
        JObj([id |-> JStr(id), titleText |-> JObj([text |-> JStr(text)])])])])

\* An edge whose title has an id and no titleText.
UntitledEdge(id) == JObj([node |-> JObj([title |-> JObj([id |-> JStr(id)])])])

\* A pageInfo substructure {hasNextPage, endCursor}.
PageInfo(has_next_page, end_cursor) ==
    JObj([hasNextPage |-> JBool(has_next_page), endCursor |-> end_cursor])

\* A search result {edges, pageInfo}.
Page(edges, page_info) == JObj([edges |-> edges, pageInfo |-> page_info])

FirstEdges == JList(<<Edge("tt1", "A"), UntitledEdge("tt9")>>)

SecondEdges == JList(<<JNull, Edge("tt2", "B"), Edge("tt1", "A")>>)

\* The search results the remote of the model serves.  A page with more
\* pages after it hands out a cursor, which is not validated: it can be a
\* cursor already handed out, "" or null.  A last page says hasNextPage=false
\* or says nothing: a pageInfo of {}, no pageInfo, or nothing at all.  A
\* broken page has null for its pageInfo or for its edges.
SearchResults ==
    { Page(FirstEdges, PageInfo(TRUE, JStr("c1"))),
      Page(SecondEdges, PageInfo(TRUE, JStr("c2"))),
      Page(FirstEdges, PageInfo(TRUE, JStr(""))),
      Page(SecondEdges, PageInfo(TRUE, JNull)),
      Page(SecondEdges, PageInfo(FALSE, JStr("c1"))),
      Page(FirstEdges, EmptyObj),
      JObj([edges |-> SecondEdges]),
      JObj([pageInfo |-> PageInfo(FALSE, JNull)]),
      EmptyObj,
      Page(FirstEdges, JNull),
      Page(SecondEdges, JObj([hasNextPage |-> JNull, endCursor |-> JStr("c2")])),
      Page(JNull, PageInfo(TRUE, JStr("c1"))) }

\* The decoded bodies of a 200 response; Raise is a body response.json()
\* cannot decode.
Bodies ==
    {JObj([data |-> JObj([advancedTitleSearch |-> sr])]) : sr \in SearchResults}
    \cup { Raise, EmptyObj, JObj([errors |-> EmptyList]), JObj([data |-> JNull]),
           JObj([data |-> EmptyObj]),
           JObj([data |-> JObj([advancedTitleSearch |-> JNull])]) }

\* A transport failure (session.get raises), or an HTTP response: its status,
\* whether its text holds "challenge-container", and its decoded body.
Responses ==
    {[kind |-> "transport", status |-> 0, challenge |-> FALSE, body |-> Raise]}
    \cup {[kind |-> "http", status |-> 403, challenge |-> c, body |-> Raise] : c \in BOOLEAN}
    \cup {[kind |-> "http", status |-> 200, challenge |-> FALSE, body |-> b] : b \in Bodies}
    \cup {[kind |-> "http", status |-> 200, challenge |-> TRUE, body |-> Raise]}

\* What an observer keeps of a response: its kind, status and marker, whether
\* its body is an envelope {data: {advancedTitleSearch: {...}}} ("page"),
\* another body ("other") or none, and the pageInfo and number of edges of a
\* page.
NoResponse ==
    [kind |-> "none", status |-> 0, challenge |-> FALSE, envelope |-> "none",
     page_info |-> [t |-> "absent"], n_edges |-> 0]

NoFile == [t |-> "nofile"]

\* A file that open(..., 'w') truncated and json.dump did not finish.
TornFile == [t |-> "torn"]

(***************************************************************************)
(* PaginatedFetcher: IMDbCrawler._fetch_movies_page.                       *)
(***************************************************************************)

\* imdb_crawler.py:137-139: the "after" variable of the request; JNull stands
\* for a request without one.
RequestAfter(token) == IF Truthy(token) THEN token ELSE JNull

\* imdb_crawler.py:164-176: what a 200 response yields: the decoded data when
\* it is truthy, holds 'data' and the pagination details can be read for
\* printing, None otherwise (every exception is caught at :188).
Decode200(data) ==
    IF data = Raise \/ ~Truthy(data) THEN JNull
    ELSE Bind(PyIn("data", data), LAMBDA has :
        IF has = Raise THEN JNull
        ELSE IF ~has.b THEN JNull
        ELSE IF ~IsObj(data) THEN JNull
        ELSE Bind(PyGet(data.o["data"], "advancedTitleSearch", EmptyObj), LAMBDA search_results :
             Bind(IF search_results = Raise THEN Raise
                  ELSE PyGet(search_results, "pageInfo", EmptyObj), LAMBDA page_info :
             Bind(IF page_info = Raise THEN Raise
                  ELSE PyGet(page_info, "hasNextPage", JBool(FALSE)), LAMBDA shown :
                IF shown = Raise THEN JNull ELSE data))))

\* FetchMoviesPage with the bug of renewing the session on every non-200
\* response.
FetchMoviesPageRenewingAlways(resp) ==
    IF resp.kind = "transport" THEN [ret |-> JNull, renew |-> FALSE]
    ELSE IF resp.status = 200 THEN [ret |-> Decode200(resp.body), renew |-> FALSE]
    ELSE [ret |-> JNull, renew |-> TRUE]

\* _fetch_movies_page (imdb_crawler.py:157-190) on the response to its one
\* request: [ret, renew], the page or None, and whether _init_session ran.
FetchMoviesPage(resp) ==
    IF resp.kind = "transport" THEN [ret |-> JNull, renew |-> FALSE]
    ELSE IF resp.status = 200 THEN [ret |-> Decode200(resp.body), renew |-> FALSE]
    ELSE [ret |-> JNull, renew |-> resp.challenge]


(***************************************************************************)
(* CrawlLoop: IMDbCrawler.get_vietnamese_movies.                           *)
(***************************************************************************)

\* What "for edge in edges" iterates (imdb_crawler.py:94).  The responses of
\* this model carry edges as a list or as null; null is not iterable.
EdgeItems(edges) == IF edges.t = "list" THEN edges.l ELSE Raise

\* Accumulate with the bug of inserting at the front.
AccumulateInFront(movies, movie_data) ==
    IF Truthy(movie_data) THEN <<movie_data>> \o movies ELSE movies

\* imdb_crawler.py:96-97: a truthy movie_data is appended to the accumulator.
Accumulate(movies, movie_data) ==
    IF Truthy(movie_data) THEN Append(movies, movie_data) ELSE movies

\* The edge loop (imdb_crawler.py:94-99) from the state (movies, errs) on:
\* every edge is extracted, a truthy result is appended.  An exception
\* leaving _extract_movie_data would leave the loop with what was appended so
\* far.
\* ProcessEdges with the bug of a loop that a dropped edge ends.
RECURSIVE ProcessEdgesUntilDropped(_, _, _)
ProcessEdgesUntilDropped(edges, movies, errs) ==
    IF edges = <<>> THEN [movies |-> movies, errs |-> errs, raised |-> FALSE]
    ELSE Bind(ExtractMovieData(Head(edges)), LAMBDA movie_data :
        IF movie_data.raised THEN [movies |-> movies, errs |-> errs, raised |-> TRUE]
        ELSE IF movie_data.ret = JNull
        THEN [movies |-> movies, errs |-> errs + movie_data.errs, raised |-> FALSE]
        ELSE Bind(Accumulate(movies, movie_data.ret), LAMBDA appended :
             Bind(errs + movie_data.errs, LAMBDA counted :
             Bind(Tail(edges), LAMBDA rest :
                ProcessEdgesUntilDropped(rest, appended, counted)))))

RECURSIVE ProcessEdges(_, _, _)
ProcessEdges(edges, movies, errs) ==
    IF edges = <<>> THEN [movies |-> movies, errs |-> errs, raised |-> FALSE]
    ELSE Bind(ExtractMovieData(Head(edges)), LAMBDA movie_data :
        IF movie_data.raised THEN [movies |-> movies, errs |-> errs, raised |-> TRUE]
        ELSE Bind(Accumulate(movies, movie_data.ret), LAMBDA appended :
             Bind(errs + movie_data.errs, LAMBDA counted :
             Bind(Tail(edges), LAMBDA rest :
                ProcessEdges(rest, appended, counted)))))

\* The loop body after a truthy movies_page (imdb_crawler.py:87-106):
\* whether it raised, the accumulator and error counter it leaves, and the
\* pagination values it read.
LoopBody(movies_page, movies, errs) ==
    Bind(PyGet(movies_page, "data", EmptyObj), LAMBDA data :
    Bind(IF data = Raise THEN Raise
         ELSE PyGet(data, "advancedTitleSearch", EmptyObj), LAMBDA search_results :
    Bind(IF search_results = Raise THEN Raise
         ELSE PyGet(search_results, "edges", EmptyList), LAMBDA edges :
    Bind(IF search_results = Raise THEN Raise
         ELSE PyGet(search_results, "pageInfo", EmptyObj), LAMBDA page_info :
    Bind(IF edges = Raise THEN Raise ELSE EdgeItems(edges), LAMBDA items :
        IF items = Raise
        THEN [raised |-> TRUE, movies |-> movies, errs |-> errs,
              has_next |-> JNull, after_token |-> JNull]
        ELSE Bind(ProcessEdges(items, movies, errs), LAMBDA done :
             Bind(PyGet(page_info, "hasNextPage", JBool(FALSE)), LAMBDA hn :
             Bind(PyGet(page_info, "endCursor", JNull), LAMBDA tok :
                [raised      |-> done.raised \/ hn = Raise \/ tok = Raise,
                 movies      |-> done.movies,
                 errs        |-> done.errs,
                 has_next    |-> hn,
                 after_token |-> tok]))))))))

\* _save_progress (imdb_crawler.py:255-261) on the accumulator: the file
\* after it.  The write succeeds, or open raises and the file is as before,
\* or json.dump raises after open truncated the file; the exception is
\* caught.
SaveOutcomes == {"ok", "open_error", "write_error"}

\* SaveProgress with the bug of writing only a non-empty accumulator.
SaveProgressUnlessEmpty(file, movies, outcome) ==
    CASE outcome = "ok"          -> IF movies = <<>> THEN file ELSE JList(movies)
      [] outcome = "open_error"  -> file
      [] outcome = "write_error" -> TornFile

SaveProgress(file, movies, outcome) ==
    CASE outcome = "ok"          -> JList(movies)
      [] outcome = "open_error"  -> file
      [] outcome = "write_error" -> TornFile

\* The valid records of a page as the remote served it: the edges that
\* extract to a record, in edge order.
RECURSIVE ValidRecords(_)
ValidRecords(edges) ==
    IF edges = <<>> THEN <<>>
    ELSE Bind(ExtractMovieData(Head(edges)), LAMBDA r :
        (IF r.ret # JNull THEN <<r.ret>> ELSE <<>>) \o ValidRecords(Tail(edges)))

\* The edges of a decoded page, <<>> when it has none.
EdgesOf(body) ==
    Bind(PyGet(body, "data", EmptyObj), LAMBDA data :
    Bind(PyGet(data, "advancedTitleSearch", EmptyObj), LAMBDA sr :
    Bind(PyGet(sr, "edges", EmptyList), LAMBDA es :
        IF es # Raise /\ es.t = "list" THEN es.l ELSE <<>>)))

\* The pageInfo of a decoded page as the remote sent it: the dict, JNull
\* for null, or "absent".
Absent == [t |-> "absent"]

PageInfoOf(body) ==
    Bind(PyGet(body, "data", EmptyObj), LAMBDA data :
    Bind(PyGet(data, "advancedTitleSearch", EmptyObj), LAMBDA sr :
        IF sr = Raise THEN Absent ELSE PyGet(sr, "pageInfo", Absent)))

\* Whether a body is {data: {advancedTitleSearch: {...}}}.
IsEnvelope(body) ==
    /\ body # Raise
    /\ HasKey(body, "data")
    /\ HasKey(body.o["data"], "advancedTitleSearch")
    /\ IsObj(body.o["data"].o["advancedTitleSearch"])

Observed(resp) ==
    Bind(resp.kind = "http" /\ resp.status = 200 /\ IsEnvelope(resp.body), LAMBDA page :
        [kind      |-> resp.kind,
         status    |-> resp.status,
         challenge |-> resp.challenge,
         envelope  |-> IF page THEN "page"
                       ELSE IF resp.kind = "http" /\ resp.status = 200 THEN "other"
                       ELSE "none",
         page_info |-> IF page THEN PageInfoOf(resp.body) ELSE Absent,
         n_edges   |-> IF page THEN Len(EdgesOf(resp.body)) ELSE 0])

\* NextPc with the bug of a loop that also stops when the page handed out
\* no cursor for a next page.
NextPcNeedsCursor(has_next_value) ==
    IF Truthy(has_next_value) /\ Truthy(after_token') THEN "FETCHING" ELSE "DONE"

\* The loop condition "while has_next" (imdb_crawler.py:76) after an
\* iteration that ran to its end: the next fetch, or the return at :123.
NextPc(has_next_value) == IF Truthy(has_next_value) THEN "FETCHING" ELSE "DONE"

\* The state after construction (imdb_crawler.py:13-34 and :72-74).
Constructed ==
    /\ after_token = JNull
    /\ has_next = JBool(TRUE)
    /\ page_errors = 0
    /\ all_movies = <<>>
    /\ error_count = 0
    /\ progress_file = NoFile
    /\ fetch_calls = 0
    /\ last_request = [cursor |-> JNull, after |-> JNull]
    /\ last_resp = NoResponse
    /\ last_outcome = "none"
    /\ session_renewed = FALSE
    /\ ok_pages = 0
    /\ ok_records = <<>>
    /\ saves = 0
    /\ last_save = "none"

\* get_vietnamese_movies is entered (imdb_crawler.py:71-76).
CatalogStart == pc = "FETCHING" /\ Constructed

\* Requested with the bug of a fetcher that sends its request again after
\* it renewed the session.
RequestedAgainAfterRenewal(resp) ==
    /\ pc = "FETCHING"
    /\ Truthy(has_next)
    /\ fetch_calls < MaxFetch
    /\ fetch_calls' = fetch_calls + (IF FetchMoviesPage(resp).renew THEN 2 ELSE 1)
    /\ last_request' = [cursor |-> after_token, after |-> RequestAfter(after_token)]
    /\ last_resp' = Observed(resp)
    /\ session_renewed' = FetchMoviesPage(resp).renew
    /\ UNCHANGED <<xVars, rvVars, dVars, rcVars>>

\* What every iteration of the loop does first (imdb_crawler.py:79): one
\* call of the fetcher with the cursor, answered by resp.
Requested(resp) ==
    /\ pc = "FETCHING"
    /\ Truthy(has_next)
    /\ fetch_calls < MaxFetch
    /\ fetch_calls' = fetch_calls + 1
    /\ last_request' = [cursor |-> after_token, after |-> RequestAfter(after_token)]
    /\ last_resp' = Observed(resp)
    /\ session_renewed' = FetchMoviesPage(resp).renew
    /\ UNCHANGED <<xVars, rvVars, dVars, rcVars>>

\* Failed with the bug of a loop that starts over after a failure: the
\* cursor is reset to None.
FailedRestarting(outcome, movies, errs) ==
    /\ pc' = "RETRY_WAIT"
    /\ page_errors' = page_errors + 1
    /\ last_outcome' = outcome
    /\ all_movies' = movies
    /\ error_count' = errs
    /\ after_token' = JNull
    /\ UNCHANGED <<has_next, progress_file, ok_pages, ok_records, saves, last_save>>

\* imdb_crawler.py:81-85 and :114-117: a failed iteration counts a page error
\* and sleeps; the cursor and the loop condition are as before.
Failed(outcome, movies, errs) ==
    /\ pc' = "RETRY_WAIT"
    /\ page_errors' = page_errors + 1
    /\ last_outcome' = outcome
    /\ all_movies' = movies
    /\ error_count' = errs
    /\ UNCHANGED <<after_token, has_next, progress_file, ok_pages, ok_records,
                   saves, last_save>>

\* An iteration whose fetch fails in transport: session.get raises.
FetchTransportError ==
    \E resp \in Responses :
        /\ resp.kind = "transport"
        /\ Requested(resp)
        /\ Failed("transport", all_movies, error_count)

\* An iteration whose fetch gets a non-200 response, with or without the
\* challenge marker.
FetchHttpError ==
    \E resp \in Responses :
        /\ resp.kind = "http" /\ resp.status # 200
        /\ Requested(resp)
        /\ Failed(IF resp.challenge THEN "challenge" ELSE "http", all_movies, error_count)

\* An iteration whose fetch gets a 200 response the fetcher returns None for.
FetchBadEnvelope ==
    \E resp \in Responses :
        /\ resp.kind = "http" /\ resp.status = 200
        /\ ~Truthy(FetchMoviesPage(resp).ret)
        /\ Requested(resp)
        /\ Failed("bad_envelope", all_movies, error_count)

\* An iteration whose fetch returns a page and whose body raises
\* (imdb_crawler.py:114-117).
PageRaises ==
    \E resp \in Responses :
        \E movies_page \in {FetchMoviesPage(resp).ret} :
            /\ Truthy(movies_page)
            /\ \E body \in {LoopBody(movies_page, all_movies, error_count)} :
                   /\ body.raised
                   /\ Requested(resp)
                   /\ Failed("raised", body.movies, body.errs)

\* PageProcessed with the bug of a _save_progress that lets the exception
\* of a failed write reach the loop's except clause.
PageProcessedUnlessSaveFails ==
    \E resp \in Responses :
        \E movies_page \in {FetchMoviesPage(resp).ret} :
            /\ Truthy(movies_page)
            /\ \E body \in {LoopBody(movies_page, all_movies, error_count)} :
                   /\ ~body.raised
                   /\ Requested(resp)
                   /\ all_movies' = body.movies
                   /\ error_count' = body.errs
                   /\ has_next' = body.has_next
                   /\ after_token' = body.after_token
                   /\ \E outcome \in SaveOutcomes :
                          /\ progress_file' = SaveProgress(progress_file, body.movies, outcome)
                          /\ last_save' = outcome
                          /\ pc' = IF outcome = "ok" THEN NextPc(body.has_next) ELSE "RETRY_WAIT"
                          /\ page_errors' = IF outcome = "ok" THEN page_errors ELSE page_errors + 1
                   /\ saves' = saves + 1
                   /\ last_outcome' = "ok"
                   /\ ok_pages' = ok_pages + 1
                   /\ ok_records' = ok_records \o ValidRecords(EdgesOf(movies_page))

\* An iteration that processes its page to the end (imdb_crawler.py:87-112):
\* the edges are extracted, the pagination values taken over, the checkpoint
\* written; the loop condition then decides between the next fetch and the
\* return at :123.
PageProcessed ==
    \E resp \in Responses :
        \E movies_page \in {FetchMoviesPage(resp).ret} :
            /\ Truthy(movies_page)
            /\ \E body \in {LoopBody(movies_page, all_movies, error_count)} :
                   /\ ~body.raised
                   /\ Requested(resp)
                   /\ all_movies' = body.movies
                   /\ error_count' = body.errs
                   /\ has_next' = body.has_next
                   /\ after_token' = body.after_token
                   /\ \E outcome \in SaveOutcomes :
                          /\ progress_file' = SaveProgress(progress_file, body.movies, outcome)
                          /\ last_save' = outcome
                   /\ saves' = saves + 1
                   /\ pc' = NextPc(body.has_next)
                   /\ last_outcome' = "ok"
                   /\ ok_pages' = ok_pages + 1
                   /\ ok_records' = ok_records \o ValidRecords(EdgesOf(movies_page))
                   /\ UNCHANGED page_errors

\* RetryWait with the bug of a ceiling: after three page errors the loop
\* gives up.
RetryWaitGivingUp ==
    /\ pc = "RETRY_WAIT"
    /\ pc' = IF page_errors >= 3 THEN "DONE" ELSE "FETCHING"
    /\ UNCHANGED <<after_token, has_next, page_errors, all_movies, error_count,
                   progress_file, fetch_calls, last_request, last_resp,
                   last_outcome, session_renewed, ok_pages, ok_records, saves,
                   last_save>>
    /\ UNCHANGED <<xVars, rvVars, dVars, rcVars>>

\* The sleep of a failed iteration is over (imdb_crawler.py:84-85 and
\* :116-117): continue, with everything as it was.
RetryWait ==
    /\ pc = "RETRY_WAIT"
    /\ pc' = "FETCHING"
    /\ UNCHANGED <<after_token, has_next, page_errors, all_movies, error_count,
                   progress_file, fetch_calls, last_request, last_resp,
                   last_outcome, session_renewed, ok_pages, ok_records, saves,
                   last_save>>
    /\ UNCHANGED <<xVars, rvVars, dVars, rcVars>>

CatalogNext ==
    \/ FetchTransportError
    \/ FetchHttpError
    \/ FetchBadEnvelope
    \/ PageRaises
    \/ PageProcessed
    \/ RetryWait

\* No extraction rule has been called on its own.
NoCall ==
    /\ x_calls = 0
    /\ x_fn = "none"
    /\ x_arg = JNull
    /\ x_ret = JNull

\* get_movie_reviews is not running.
NoReviewRun ==
    /\ rv_pc = "IDLE"
    /\ rv_movie_id = JNull
    /\ rv_after_token = JNull
    /\ rv_has_next = JNull
    /\ rv_all_reviews = <<>>
    /\ rv_page = 0
    /\ rv_fetch_calls = 0
    /\ rv_last_request = JNull
    /\ rv_last_resp = NoResponse
    /\ rv_last_outcome = "none"

\* process_movies_file is not running.
NoDetailBatch ==
    /\ d_pc = "IDLE"
    /\ d_input = JNull
    /\ d_idx = 0
    /\ detailed_movies = <<>>
    /\ d_file = NoFile
    /\ d_driver = "quit"
    /\ d_ret = JNull
    /\ d_checkpoints = <<>>
    /\ d_attempts = <<>>
    /\ d_outcomes = <<>>
    /\ d_navigations = 0
    /\ d_last_save = "none"
    /\ d_quits = 0
    /\ d_last_attempt = [json_data |-> JNull, snapshot |-> "none"]

\* crawl_movies_reviews is not running.
NoReviewBatch ==
    /\ rc_pc = "IDLE"
    /\ rc_input = JNull
    /\ rc_idx = 0
    /\ rc_all_reviews = <<>>
    /\ rc_file = NoFile
    /\ rc_ret = JNull
    /\ rc_item_reviews = <<>>
    /\ rc_saves = 0
    /\ rc_last_save = "none"
    /\ rc_visits = <<>>

Init == CatalogStart /\ NoCall /\ NoReviewRun /\ NoDetailBatch /\ NoReviewBatch

Next == CatalogNext

vars == <<catVars, xVars, rvVars, dVars, rcVars>>

Spec == Init /\ [][Next]_vars

(***************************************************************************)
(* The catalog run against a remote that has finitely many pages, each     *)
(* with a well-formed envelope and, but for the last, a cursor of its own, *)
(* and whose failures are followed by a success.                           *)
(***************************************************************************)

\* The pages of the remote, in order, and the cursor that asks for each.
RemotePages ==
    << Page(FirstEdges, PageInfo(TRUE, JStr("c1"))),
       Page(SecondEdges, PageInfo(TRUE, JStr("c2"))),
       Page(SecondEdges, PageInfo(FALSE, JStr("c1"))) >>

RemoteCursors == <<JNull, JStr("c1"), JStr("c2")>>

\* The response of the remote to a request with the given cursor that
\* succeeds.
RemoteResponse(token) ==
    [kind      |-> "http",
     status    |-> 200,
     challenge |-> FALSE,
     body      |-> JObj([data |-> JObj([advancedTitleSearch |->
                      RemotePages[CHOOSE i \in 1..Len(RemotePages) : RemoteCursors[i] = token]])])]

\* The failures of a run of this model are bounded, so that the requests it
\* needs stay within MaxFetch.
MayFail == page_errors < MaxFetch - Len(RemotePages)

\* An iteration whose fetch fails: in transport, by a non-200 response, or
\* by a 200 response whose body the fetcher returns None for.
RemoteFetchFails == MayFail /\ (FetchTransportError \/ FetchHttpError \/ FetchBadEnvelope)

\* An iteration whose fetch succeeds: the remote serves the page the cursor
\* asks for, and the loop processes it.
RemotePageProcessed ==
    /\ PageProcessed
    /\ last_resp' = Observed(RemoteResponse(after_token))

NextRemote ==
    \/ RemoteFetchFails
    \/ RemotePageProcessed
    \/ RetryWait

\* The loop keeps running, and a fetch that is tried again and again
\* succeeds in the end.
SpecRemote ==
    Init /\ [][NextRemote]_vars /\ WF_vars(RetryWait) /\ SF_vars(RemotePageProcessed)

(***************************************************************************)
(* The catalog run when the process can be terminated.  _save_progress     *)
(* opens the file with mode 'w', which empties it, and json.dump then       *)
(* writes the list piece by piece (imdb_crawler.py:258-259).                *)
(***************************************************************************)

\* The file right after open(..., 'w'): it exists and is empty.
EmptyFile == [t |-> "empty"]

\* What the file can hold when the process dies inside _save_progress.
FilesOfBrokenSave == {EmptyFile, TornFile}

\* The process is terminated between two iterations of the loop.
Terminated ==
    /\ pc \in {"FETCHING", "RETRY_WAIT"}
    /\ pc' = "KILLED"
    /\ UNCHANGED <<after_token, has_next, page_errors, all_movies, error_count,
                   progress_file, fetch_calls, last_request, last_resp,
                   last_outcome, session_renewed, ok_pages, ok_records, saves,
                   last_save>>
    /\ UNCHANGED <<xVars, rvVars, dVars, rcVars>>

\* The process is terminated inside the _save_progress of an iteration
\* (imdb_crawler.py:109 and :258-259): the page was extracted and the
\* pagination values taken over, the file was opened and not written to the
\* end.
TerminatedInSave ==
    \E resp \in Responses :
        \E movies_page \in {FetchMoviesPage(resp).ret} :
            /\ Truthy(movies_page)
            /\ \E body \in {LoopBody(movies_page, all_movies, error_count)} :
                   /\ ~body.raised
                   /\ Requested(resp)
                   /\ all_movies' = body.movies
                   /\ error_count' = body.errs
                   /\ has_next' = body.has_next
                   /\ after_token' = body.after_token
                   /\ progress_file' \in FilesOfBrokenSave
                   /\ last_save' = "killed"
                   /\ saves' = saves + 1
                   /\ pc' = "KILLED"
                   /\ last_outcome' = "killed"
                   /\ UNCHANGED <<page_errors, ok_pages, ok_records>>

NextKill ==
    \/ CatalogNext
    \/ Terminated
    \/ TerminatedInSave

SpecKill == Init /\ [][NextKill]_vars

(***************************************************************************)
(* The extraction rules called on their own, on raw inputs of every shape. *)
(***************************************************************************)
MaxCalls == 2

MaxSeconds == 125

MaxGenres == 2

Seconds == (0 - MaxSeconds)..MaxSeconds

\* A runtime object of the API.
Runtime(seconds) == JObj([seconds |-> seconds])

\* What can stand where the runtime object is expected.
RuntimeValues ==
    {JNull, EmptyObj, Runtime(JNull), Runtime(JStr("90")), Runtime(JBool(TRUE)), JInt(7)}
        \cup {Runtime(JInt(n)) : n \in Seconds}

\* The aboveTheFoldData of a detail page, with and without a runtime.
AboveFoldValues ==
    {EmptyObj} \cup {JObj([runtime |-> runtime]) : runtime \in RuntimeValues}

GenreNames == {"Drama", "War"}

\* The genre lists of at most MaxGenres names.
GenreLists == UNION {[1..n -> GenreNames] : n \in 0..MaxGenres}

\* The two shapes of a genre item: {genre: {text: g}} and {text: g}.
NestedGenre(g) == JObj([genre |-> JObj([text |-> JStr(g)])])

BareGenre(g) == JObj([text |-> JStr(g)])

Shaped(shape, names) ==
    [i \in 1..Len(names) |->
        IF shape = "nested" THEN NestedGenre(names[i]) ELSE BareGenre(names[i])]

\* What can stand where the titleGenres wrapper is expected.
GenresValues ==
    {JObj([genres |-> JList(Shaped(shape, names))]) :
        shape \in {"nested", "bare"}, names \in GenreLists}
    \cup {JNull, EmptyObj, JObj([genres |-> JNull]),
          JObj([genres |-> JList(<<NestedGenre("Drama"), BareGenre("War")>>)]),
          JObj([genres |-> JList(<<JNull, NestedGenre("War"), JStr("Drama")>>)]),
          JObj([genres |-> JList(<<JObj([genre |-> JNull])>>)]),
          JObj([genres |-> JList(<<JObj([genre |-> EmptyObj])>>)])}

\* A title dict with the given fields, a field that is Absent left out.
TitleOf(fields) ==
    JObj([k \in {f \in DOMAIN fields : fields[f] # Absent} |-> fields[k]])

EdgeOf(title) == JObj([node |-> JObj([title |-> title])])

\* An edge whose title is complete and carries the genres wrapper.
GenreEdge(genres_data) ==
    EdgeOf(TitleOf([id |-> JStr("tt1"), titleText |-> JObj([text |-> JStr("A")]),
                    titleGenres |-> genres_data]))

\* The raw edges: malformed at every level, titles with every combination of
\* id, titleText and runtime, and complete titles with every genres wrapper.
MovieEdges ==
    {JNull, EmptyObj, JStr("node"), JInt(1), JList(<<JStr("node")>>),
     JObj([node |-> JNull]), JObj([node |-> EmptyObj]), JObj([node |-> JStr("x")]),
     JObj([node |-> JObj([title |-> JNull])]), JObj([node |-> JObj([title |-> JStr("x")])])}
    \cup {EdgeOf(TitleOf([id |-> id, titleText |-> title_text, runtime |-> runtime])) :
            id \in {Absent, JNull, JStr(""), JStr("tt1")},
            title_text \in {Absent, JNull, JStr("A"), JObj([text |-> JStr("")]),
                            JObj([text |-> JStr("A")])},
            runtime \in {Absent, Runtime(JInt(MaxSeconds)), Runtime(JInt(0 - 1)),
                         Runtime(JStr("90")), JInt(7)}}
    \cup {GenreEdge(genres_data) : genres_data \in GenresValues}

\* One call of _extract_movie_data (imdb_crawler.py:192-253) on a raw edge.
ExtractCall ==
    /\ x_calls < MaxCalls
    /\ x_calls' = x_calls + 1
    /\ x_fn' = "_extract_movie_data"
    /\ \E movie_edge \in MovieEdges :
           \E r \in {ExtractMovieData(movie_edge)} :
               /\ x_arg' = movie_edge
               /\ x_ret' = [ret |-> r.ret, raised |-> r.raised]
               /\ error_count' = error_count + r.errs
    /\ UNCHANGED <<pc, after_token, has_next, page_errors, all_movies,
                   progress_file, fetch_calls, last_request, last_resp,
                   last_outcome, session_renewed, ok_pages, ok_records, saves,
                   last_save>>
    /\ UNCHANGED <<rvVars, dVars, rcVars>>

\* One evaluation of the runtime expression of the catalog record
\* (imdb_crawler.py:224).
RuntimeCall ==
    /\ x_calls < MaxCalls
    /\ x_calls' = x_calls + 1
    /\ x_fn' = "runtime_minutes"
    /\ \E runtime \in RuntimeValues :
           /\ x_arg' = runtime
           /\ x_ret' = RuntimeMinutes(runtime)
    /\ UNCHANGED <<catVars, rvVars, dVars, rcVars>>

\* One evaluation of the runtime expression of the detail record
\* (movie_detail_crawler.py:68 and :91).
DetailRuntimeCall ==
    /\ x_calls < MaxCalls
    /\ x_calls' = x_calls + 1
    /\ x_fn' = "detail_runtime_minutes"
    /\ \E above_fold_data \in AboveFoldValues :
           /\ x_arg' = above_fold_data
           /\ x_ret' = DetailRuntimeMinutes(above_fold_data)
    /\ UNCHANGED <<catVars, rvVars, dVars, rcVars>>

InitExtract ==
    pc = "START" /\ Constructed /\ NoCall /\ NoReviewRun /\ NoDetailBatch /\ NoReviewBatch

NextExtract ==
    \/ ExtractCall
    \/ RuntimeCall
    \/ DetailRuntimeCall

SpecExtract == InitExtract /\ [][NextExtract]_vars

(***************************************************************************)
(* get_movie_details called on its own, on catalog records and page        *)
(* payloads of every shape.  The values of a catalog record and those of a *)
(* payload are chosen apart, so that a field of the result shows where it  *)
(* was taken from.                                                         *)
(***************************************************************************)

\* {text: s}
TextOf(s) == JObj([text |-> JStr(s)])

\* The ratingsSummary of a payload.
FreshRatings ==
    {Absent, JNull, EmptyObj,
     JObj([aggregateRating |-> JInt(0), voteCount |-> JInt(0)]),
     JObj([aggregateRating |-> JInt(7), voteCount |-> JInt(9)]),
     JObj([aggregateRating |-> JNull, voteCount |-> JInt(9)]),
     JObj([aggregateRating |-> JInt(7)])}

\* The aboveTheFoldData of a payload; rest tells whether it carries the
\* sections beyond the titles and the ratings.
AboveFold(title_text, original_title_text, ratings_summary, rest) ==
    TitleOf([id                |-> JStr("tt1"),
             titleText         |-> title_text,
             originalTitleText |-> original_title_text,
             ratingsSummary    |-> ratings_summary,
             releaseYear       |-> IF rest THEN JObj([year |-> JInt(2001)]) ELSE Absent,
             runtime           |-> IF rest THEN Runtime(JInt(125)) ELSE Absent,
             certificate       |-> IF rest THEN JObj([rating |-> JStr("PG")]) ELSE Absent,
             reviews           |-> IF rest THEN JObj([total |-> JInt(3)]) ELSE Absent,
             criticReviews     |-> IF rest THEN JObj([total |-> JInt(2)]) ELSE Absent,
             meterRanking      |-> IF rest THEN JObj([currentRank |-> JInt(5)]) ELSE Absent,
             genres            |-> IF rest THEN JObj([genres |-> JList(<<TextOf("new-genre")>>)])
                                   ELSE Absent,
             plot              |-> IF rest
                                   THEN JObj([plotText |-> JObj([plainText |-> JStr("new-plot")])])
                                   ELSE Absent,
             primaryImage      |-> IF rest THEN JObj([url |-> JStr("new-image")]) ELSE Absent])

\* The mainColumnData of a payload.
MainColumn(rest) ==
    TitleOf([id |-> JStr("tt1"),
             countriesOfOrigin |->
                 IF rest THEN JObj([countries |-> JList(<<TextOf("VN"), JNull, TextOf("FR")>>)])
                 ELSE Absent])

PageProps(above_fold_data, main_column_data) ==
    TitleOf([aboveTheFoldData |-> above_fold_data, mainColumnData |-> main_column_data])

Payload(page_props) == JObj([props |-> JObj([pageProps |-> page_props])])

\* The payloads with both sections.
FullPayloads ==
    {Payload(PageProps(AboveFold(title_text, original_title_text, ratings_summary, rest),
                       MainColumn(rest))) :
        title_text \in {Absent, TextOf(""), TextOf("N")},
        original_title_text \in {Absent, TextOf(""), TextOf("O")},
        ratings_summary \in FreshRatings,
        rest \in BOOLEAN}

GoodAboveFold == AboveFold(TextOf("N"), TextOf("O"), Absent, TRUE)

\* The outcomes of loading a page that give no record: the load raised, a
\* level of the payload is missing or null, a section is missing, or a part
\* has the wrong type.
BrokenPayloads ==
    {Raise, EmptyObj, EmptyList, JObj([props |-> JNull]), Payload(EmptyObj), Payload(JStr("x")),
     Payload(PageProps(GoodAboveFold, Absent)),
     Payload(PageProps(JNull, MainColumn(TRUE))),
     Payload(PageProps(JStr("x"), MainColumn(TRUE))),
     Payload(PageProps(GoodAboveFold, JStr("x"))),
     Payload(PageProps(AboveFold(JStr("N"), Absent, Absent, FALSE), MainColumn(TRUE))),
     Payload(PageProps(GoodAboveFold,
                       JObj([countriesOfOrigin |-> JObj([countries |-> JNull])])))}

\* A catalog record as the detail phase reads it from its input file; rest
\* tells whether it carries the fields beyond id, title, rating and votes.
CatalogRecord(id, title, rating, votes, original_title, rest) ==
    TitleOf([id                   |-> id,
             title                |-> title,
             rating               |-> rating,
             votes                |-> votes,
             original_title       |-> original_title,
             year                 |-> IF rest THEN JInt(1999) ELSE Absent,
             runtime_minutes      |-> IF rest THEN JInt(99) ELSE Absent,
             genres               |-> IF rest THEN JList(<<JStr("old-genre")>>) ELSE Absent,
             plot                 |-> IF rest THEN JStr("old-plot") ELSE Absent,
             primary_image        |-> IF rest THEN JStr("old-image") ELSE Absent,
             countries            |-> IF rest THEN JList(<<JStr("old-country")>>) ELSE Absent,
             certificate          |-> IF rest THEN JStr("old-certificate") ELSE Absent,
             user_reviews_count   |-> IF rest THEN JInt(91) ELSE Absent,
             critic_reviews_count |-> IF rest THEN JInt(92) ELSE Absent,
             popularity_rank      |-> IF rest THEN JInt(93) ELSE Absent])

CatalogRecords ==
    {CatalogRecord(JStr("tt1"), title, rating, votes, original_title, rest) :
        title \in {Absent, JStr(""), JStr("T")},
        rating \in {Absent, JNull, JInt(8)},
        votes \in {Absent, JInt(500)},
        original_title \in {Absent, JStr("OT")},
        rest \in BOOLEAN}

\* The calls of get_movie_details: movie_id is the id of the record, as
\* process_movies_file passes it (movie_detail_crawler.py:150-157).
DetailCalls ==
    {[movie_id |-> original_data.o.id, original_data |-> original_data,
      json_data |-> json_data] :
        original_data \in CatalogRecords, json_data \in FullPayloads \cup BrokenPayloads}

\* One call of get_movie_details (movie_detail_crawler.py:30-133).
GetMovieDetailsCall ==
    /\ x_fn = "pending"
    /\ x_calls' = x_calls + 1
    /\ x_fn' = "get_movie_details"
    /\ x_ret' = GetMovieDetails(x_arg.movie_id, x_arg.original_data, x_arg.json_data)
    /\ UNCHANGED <<x_arg, catVars, rvVars, dVars, rcVars>>

InitDetails ==
    /\ pc = "START" /\ Constructed /\ NoReviewRun /\ NoDetailBatch /\ NoReviewBatch
    /\ x_calls = 0
    /\ x_fn = "pending"
    /\ x_arg \in DetailCalls
    /\ x_ret = JNull

NextDetails == GetMovieDetailsCall

SpecDetails == InitDetails /\ [][NextDetails]_vars

(***************************************************************************)
(* MovieDetailCrawler.process_movies_file and main: the detail batch.      *)
(***************************************************************************)

\* The most items an input list of the model holds.
MaxItems == 7

\* if idx % 5 == 0 (movie_detail_crawler.py:163)
CheckpointEvery == 5

\* The ids of the items of an input list, by position.
ItemIds == <<"tt1", "tt2", "tt3", "tt4", "tt5", "tt6", "tt7", "tt8", "tt9">>

\* What an item of the input list can be: a catalog record, a record
\* without id, or a value that is not a JSON object.
ItemKinds == {"record", "no_id", "not_object"}

CatalogItem(i, kind) ==
    CASE kind = "record" ->
             CatalogRecord(JStr(ItemIds[i]), JStr("T"), JInt(8), JInt(500), Absent, FALSE)
      [] kind = "no_id" ->
             CatalogRecord(Absent, JStr("T"), JInt(8), JInt(500), Absent, FALSE)
      [] kind = "not_object" -> JStr("x")

\* The kinds of the items of a list of n items.  The batch ends at the
\* first item that is not an object, so the lists of the model have such
\* items in their last two places only.
KindsOfItems(n) ==
    {kinds \in [1..n -> ItemKinds] :
        \A i \in 1..n : kinds[i] = "not_object" => i >= n - 1}

\* What open and json.load give of input_file (movie_detail_crawler.py:
\* 140-141): an exception, null, or a list of items.
DetailInputs ==
    {Raise, JNull} \cup
    UNION {{JList([i \in 1..n |-> CatalogItem(i, kinds[i])]) : kinds \in KindsOfItems(n)} :
              n \in 0..MaxItems}

\* What loading the page of one movie gives: a full payload, an exception,
\* or a payload without mainColumnData.
DetailPages ==
    {Payload(PageProps(GoodAboveFold, MainColumn(TRUE))), Raise,
     Payload(PageProps(GoodAboveFold, Absent))}

\* A file a previous run left.
PreviousFile == JList(<<JStr("previous run")>>)

\* movie.get('id') (movie_detail_crawler.py:150)
ItemId(movie) == PyGet(movie, "id", JNull)

\* AppendDetails with the bug of appending whatever the enrichment returned.
AppendDetailsAlways(movies, details) == Append(movies, details)

\* if details: detailed_movies.append(details) (movie_detail_crawler.py:158-159)
AppendDetails(movies, details) ==
    IF Truthy(details) THEN Append(movies, details) ELSE movies

\* idx % 5 == 0 (movie_detail_crawler.py:163)
CheckpointDue(idx) == idx % CheckpointEvery = 0

\* _save_progress (movie_detail_crawler.py:184-191): the same code as the
\* catalog's.
DetailSaveProgress(file, movies, outcome) == SaveProgress(file, movies, outcome)

\* main has constructed the crawler (movie_detail_crawler.py:226), which
\* started the browser (:26), and entered process_movies_file.
DetailBatchStart ==
    /\ d_pc = "READING"
    /\ d_input \in DetailInputs
    /\ d_idx = 0
    /\ detailed_movies = <<>>
    /\ d_file = PreviousFile
    /\ d_driver = "open"
    /\ d_ret = JNull
    /\ d_checkpoints = <<>>
    /\ d_attempts = <<>>
    /\ d_outcomes = <<>>
    /\ d_navigations = 0
    /\ d_last_save = "none"
    /\ d_quits = 0
    /\ d_last_attempt = [json_data |-> JNull, snapshot |-> "none"]

\* DetailAborted with the bug of a batch that has no finally clause.
DetailAbortedKeepingDriver ==
    /\ d_pc' = "ABORTED"
    /\ d_ret' = EmptyList
    /\ UNCHANGED <<d_input, d_idx, detailed_movies, d_file, d_checkpoints, d_attempts,
                   d_outcomes, d_navigations, d_last_save, d_driver, d_quits>>
    /\ UNCHANGED d_last_attempt
    /\ UNCHANGED <<catVars, xVars, rvVars, rcVars>>

\* The except and finally clauses of process_movies_file
\* (movie_detail_crawler.py:176-181): return [] and quit the driver.
DetailAborted ==
    /\ d_pc' = "ABORTED"
    /\ d_ret' = EmptyList
    /\ d_driver' = "quit"
    /\ d_quits' = d_quits + 1
    /\ UNCHANGED <<d_input, d_idx, detailed_movies, d_file, d_checkpoints, d_attempts,
                   d_outcomes, d_navigations, d_last_save>>
    /\ UNCHANGED d_last_attempt
    /\ UNCHANGED <<catVars, xVars, rvVars, rcVars>>

\* movie_detail_crawler.py:140-144: the input cannot be read or parsed, or
\* len(movies) raises.
DetailReadFails ==
    /\ d_pc = "READING"
    /\ d_input.t # "list"
    /\ DetailAborted

\* movie_detail_crawler.py:140-147: the input was read.
DetailReadOk ==
    /\ d_pc = "READING"
    /\ d_input.t = "list"
    /\ d_pc' = "LOOP"
    /\ detailed_movies' = <<>>
    /\ UNCHANGED <<d_input, d_idx, d_file, d_driver, d_ret, d_checkpoints, d_attempts,
                   d_outcomes, d_navigations, d_last_save, d_quits>>
    /\ UNCHANGED d_last_attempt
    /\ UNCHANGED <<catVars, xVars, rvVars, rcVars>>

\* The loop has an item to take.
DetailItemNext == d_pc = "LOOP" /\ d_idx < Len(d_input.l)

\* movie_detail_crawler.py:150: movie.get raises on an item that is not a
\* dict, which ends the batch.
DetailItemRaises ==
    /\ DetailItemNext
    /\ ItemId(d_input.l[d_idx + 1]) = Raise
    /\ DetailAborted

\* movie_detail_crawler.py:151-153: an item without id is skipped by
\* continue, which also passes over the periodic save.
DetailItemSkipped ==
    /\ DetailItemNext
    /\ \E movie_id \in {ItemId(d_input.l[d_idx + 1])} :
           movie_id # Raise /\ ~Truthy(movie_id)
    /\ d_idx' = d_idx + 1
    /\ UNCHANGED <<d_pc, d_input, detailed_movies, d_file, d_driver, d_ret, d_checkpoints,
                   d_attempts, d_outcomes, d_navigations, d_last_save, d_quits>>
    /\ UNCHANGED d_last_attempt
    /\ UNCHANGED <<catVars, xVars, rvVars, rcVars>>

\* movie_detail_crawler.py:155-168: an item with an id is enriched, the
\* record appended when there is one, and the progress saved when idx is a
\* multiple of 5.
DetailItemProcessed ==
    /\ DetailItemNext
    /\ \E movie \in {d_input.l[d_idx + 1]} :
       \E movie_id \in {ItemId(movie)} :
           /\ movie_id # Raise /\ Truthy(movie_id)
           /\ \E json_data \in DetailPages :
              \E snapshot \in DebugDumps(movie_id, movie, json_data) :
              \E details \in {GetMovieDetailsDumping(movie_id, movie, json_data, snapshot)} :
                  /\ d_last_attempt' = [json_data |-> json_data, snapshot |-> snapshot]
                  /\ d_attempts' = Append(d_attempts, movie_id)
                  /\ d_outcomes' = Append(d_outcomes, details)
                  /\ detailed_movies' = AppendDetails(detailed_movies, details)
    /\ d_navigations' = d_navigations + 1
    /\ d_idx' = d_idx + 1
    /\ IF CheckpointDue(d_idx')
       THEN \E outcome \in SaveOutcomes :
                /\ d_file' = DetailSaveProgress(d_file, detailed_movies', outcome)
                /\ d_last_save' = outcome
                /\ d_checkpoints' = Append(d_checkpoints, [after |-> d_idx', final |-> FALSE])
       ELSE UNCHANGED <<d_file, d_last_save, d_checkpoints>>
    /\ UNCHANGED <<d_pc, d_input, d_driver, d_ret, d_quits>>
    /\ UNCHANGED <<catVars, xVars, rvVars, rcVars>>

\* movie_detail_crawler.py:170-174 and :179-181: after the last item the
\* final save, the return of the accumulator, and the finally clause.
DetailBatchFinished ==
    /\ d_pc = "LOOP"
    /\ d_idx = Len(d_input.l)
    /\ \E outcome \in SaveOutcomes :
           /\ d_file' = DetailSaveProgress(d_file, detailed_movies, outcome)
           /\ d_last_save' = outcome
    /\ d_checkpoints' = Append(d_checkpoints, [after |-> d_idx, final |-> TRUE])
    /\ d_pc' = "RETURNED"
    /\ d_ret' = JList(detailed_movies)
    /\ d_driver' = "quit"
    /\ d_quits' = d_quits + 1
    /\ UNCHANGED <<d_input, d_idx, detailed_movies, d_attempts, d_outcomes, d_navigations>>
    /\ UNCHANGED d_last_attempt
    /\ UNCHANGED <<catVars, xVars, rvVars, rcVars>>

\* main's finally clause (movie_detail_crawler.py:231-233) quits the driver
\* once more.
MainExit ==
    /\ d_pc \in {"RETURNED", "ABORTED"}
    /\ d_pc' = "EXITED"
    /\ d_driver' = "quit"
    /\ d_quits' = d_quits + 1
    /\ UNCHANGED <<d_input, d_idx, detailed_movies, d_file, d_ret, d_checkpoints, d_attempts,
                   d_outcomes, d_navigations, d_last_save>>
    /\ UNCHANGED d_last_attempt
    /\ UNCHANGED <<catVars, xVars, rvVars, rcVars>>

InitBatch ==
    /\ pc = "START" /\ Constructed /\ NoCall /\ NoReviewRun /\ NoReviewBatch
    /\ DetailBatchStart

NextBatch ==
    \/ DetailReadFails
    \/ DetailReadOk
    \/ DetailItemRaises
    \/ DetailItemSkipped
    \/ DetailItemProcessed
    \/ DetailBatchFinished
    \/ MainExit

SpecBatch == InitBatch /\ [][NextBatch]_vars

\* The batch under the scheduling of a sequential program: a step that can
\* be taken is taken.
SpecBatchFair == InitBatch /\ [][NextBatch]_vars /\ WF_vars(NextBatch)

(***************************************************************************)
(* UserReviewCrawler.get_movie_reviews: the page loop of one movie.        *)
(***************************************************************************)
MaxReviewFetch == 4

\* d[k]: KeyError when the key is missing, TypeError when d is not a dict.
PyIndex(v, k) == IF HasKey(v, k) THEN v.o[k] ELSE Raise

\* A review edge of the API with the given id.
ReviewEdge(id) == JObj([node |-> JObj([id |-> JStr(id)])])

\* A review edge whose text is null, on which the extraction raises.
TextlessReviewEdge(id) == JObj([node |-> JObj([id |-> JStr(id), text |-> JNull])])

\* The reviews object of a page: its edges and its pageInfo.
ReviewsData(edges, page_info) == JObj([edges |-> edges, pageInfo |-> page_info])

FirstReviews == JList(<<ReviewEdge("rw1"), TextlessReviewEdge("rw9"), ReviewEdge("rw2")>>)

SecondReviews == JList(<<JNull, ReviewEdge("rw3")>>)

\* The reviews objects the remote serves: pages that go on, last pages, and
\* pages with parts missing or null.
ReviewResults ==
    {ReviewsData(FirstReviews, PageInfo(TRUE, JStr("c1"))),
     ReviewsData(SecondReviews, PageInfo(TRUE, JStr("c2"))),
     ReviewsData(SecondReviews, PageInfo(TRUE, JNull)),
     ReviewsData(FirstReviews, JObj([hasNextPage |-> JBool(TRUE)])),
     ReviewsData(SecondReviews, PageInfo(FALSE, JStr("c3"))),
     ReviewsData(EmptyList, PageInfo(FALSE, JNull)),
     ReviewsData(FirstReviews, EmptyObj),
     JObj([edges |-> SecondReviews]),
     ReviewsData(SecondReviews, JNull),
     ReviewsData(JNull, PageInfo(TRUE, JStr("c1"))),
     EmptyObj}

\* The bodies of a 200 response: the envelopes of these, envelopes with a
\* level missing or null, and a body that is not JSON.
ReviewBodies ==
    {JObj([data |-> JObj([title |-> JObj([reviews |-> r])])]) : r \in ReviewResults}
    \cup {Raise, EmptyObj, JObj([errors |-> EmptyList]), JObj([data |-> JNull]),
          JObj([data |-> EmptyObj]), JObj([data |-> JObj([title |-> JNull])]),
          JObj([data |-> JObj([title |-> JObj([reviews |-> JNull])])])}

ReviewResponses ==
    {[kind |-> "transport", status |-> 0, challenge |-> FALSE, body |-> Raise]}
    \cup {[kind |-> "http", status |-> 403, challenge |-> c, body |-> Raise] : c \in BOOLEAN}
    \cup {[kind |-> "http", status |-> 200, challenge |-> FALSE, body |-> b] : b \in ReviewBodies}

\* _fetch_reviews_page (user_review_crawler.py:140-151) on the response to
\* its one request: the decoded body of a 200 response, None otherwise.
FetchReviewsPage(resp) ==
    IF resp.kind = "transport" THEN JNull
    ELSE IF resp.status = 200
         THEN IF resp.body = Raise THEN JNull ELSE resp.body
         ELSE JNull

\* The .get chains of _extract_review_data (user_review_crawler.py:160-161
\* and :182-184) raise when text, its originalText, summary, helpfulness or
\* author is present and not a dict.
ReviewChainsRaise(node) ==
    \/ \E k \in {"text", "summary", "helpfulness", "author"} :
           HasKey(node, k) /\ ~IsObj(node.o[k])
    \/ /\ HasKey(node, "text")
       /\ IsObj(node.o["text"])
       /\ HasKey(node.o["text"], "originalText")
       /\ ~IsObj(node.o["text"].o["originalText"])

\* _extract_review_data (user_review_crawler.py:153-193): the review of an
\* edge, None when the node is falsy or an exception was caught.  Of the
\* record, the fields that identify the review and its movie are modelled.
ExtractReviewData(edge, movie_id) ==
    Bind(PyGet(edge, "node", EmptyObj), LAMBDA node :
        IF node = Raise THEN JNull
        ELSE IF ~Truthy(node) THEN JNull
        ELSE IF ~IsObj(node) THEN JNull
        ELSE IF ReviewChainsRaise(node) THEN JNull
        ELSE JObj([review_id |-> PyGet(node, "id", JStr("")),
                   movie_id  |-> movie_id,
                   spoiler   |-> PyGet(node, "spoiler", JBool(FALSE)),
                   rating    |-> PyGet(node, "authorRating", JNull)]))

\* user_review_crawler.py:90-93: the reviews of the edges are appended in
\* order.
RECURSIVE ProcessReviewEdges(_, _, _)
ProcessReviewEdges(edges, reviews, movie_id) ==
    IF edges = <<>> THEN reviews
    ELSE Bind(ExtractReviewData(Head(edges), movie_id), LAMBDA review :
             ProcessReviewEdges(Tail(edges),
                                IF Truthy(review) THEN Append(reviews, review) ELSE reviews,
                                movie_id))

\* The body of the try block of get_movie_reviews after a page was fetched
\* (user_review_crawler.py:86-100): [raised, reviews, has_next, after_token].
\* An exception after the edge loop leaves the appended reviews in place.
ReviewLoopBody(reviews_page, reviews, movie_id) ==
    Bind(PyIndex(reviews_page.o["data"], "title"), LAMBDA title :
    Bind(IF title = Raise THEN Raise ELSE PyIndex(title, "reviews"), LAMBDA reviews_data :
    Bind(IF reviews_data = Raise THEN Raise ELSE PyGet(reviews_data, "edges", EmptyList),
         LAMBDA edges :
        IF edges = Raise \/ edges.t # "list"
        THEN [raised |-> TRUE, reviews |-> reviews,
              has_next |-> rv_has_next, after_token |-> rv_after_token]
        ELSE Bind(ProcessReviewEdges(EdgeItems(edges), reviews, movie_id), LAMBDA grown :
             Bind(PyGet(reviews_data, "pageInfo", EmptyObj), LAMBDA page_info :
                 IF ~IsObj(page_info)
                 THEN [raised |-> TRUE, reviews |-> grown,
                       has_next |-> rv_has_next, after_token |-> rv_after_token]
                 ELSE [raised |-> FALSE, reviews |-> grown,
                       has_next |-> PyGet(page_info, "hasNextPage", JBool(FALSE)),
                       after_token |-> PyGet(page_info, "endCursor", JStr(""))])))))


\* The reviews object of a decoded body as the remote sent it, Absent when
\* the body is not {data: {title: {reviews: {...}}}}.
ReviewsOf(body) ==
    IF /\ body # Raise
       /\ HasKey(body, "data")
       /\ HasKey(body.o["data"], "title")
       /\ HasKey(body.o["data"].o["title"], "reviews")
       /\ IsObj(body.o["data"].o["title"].o["reviews"])
    THEN body.o["data"].o["title"].o["reviews"]
    ELSE Absent

\* What an observer keeps of a response to a review request.
ReviewObserved(resp) ==
    Bind(IF resp.kind = "http" /\ resp.status = 200 THEN ReviewsOf(resp.body) ELSE Absent,
         LAMBDA reviews_data :
        [kind      |-> resp.kind,
         status    |-> resp.status,
         challenge |-> resp.challenge,
         envelope  |-> IF reviews_data # Absent THEN "page"
                       ELSE IF resp.kind = "http" /\ resp.status = 200 THEN "other"
                       ELSE "none",
         page_info |-> IF reviews_data # Absent
                       THEN PyGet(reviews_data, "pageInfo", Absent) ELSE Absent,
         n_edges   |-> 0])

MovieIds == {"tt1", "tt2"}

\* get_movie_reviews is entered for a movie (user_review_crawler.py:67-76).
ReviewStart ==
    /\ rv_pc = "FETCHING"
    /\ rv_movie_id \in {JStr(id) : id \in MovieIds}
    /\ rv_after_token = JStr("")
    /\ rv_has_next = JBool(TRUE)
    /\ rv_all_reviews = <<>>
    /\ rv_page = 1
    /\ rv_fetch_calls = 0
    /\ rv_last_request = JNull
    /\ rv_last_resp = NoResponse
    /\ rv_last_outcome = "none"

\* What every iteration of the loop does first (user_review_crawler.py:79):
\* one call of the fetcher, which always sends the cursor as "after"
\* (user_review_crawler.py:117), answered by resp.
ReviewRequested(resp) ==
    /\ rv_pc = "FETCHING"
    /\ Truthy(rv_has_next)
    /\ rv_fetch_calls < MaxReviewFetch
    /\ rv_fetch_calls' = rv_fetch_calls + 1
    /\ rv_last_request' = rv_after_token
    /\ rv_last_resp' = ReviewObserved(resp)
    /\ UNCHANGED <<rv_movie_id, catVars, xVars, dVars, rcVars>>

\* Whether the loop takes a fetched page for a failure
\* (user_review_crawler.py:81): not reviews_page or 'data' not in reviews_page
NoReviewsPage(reviews_page) == ~Truthy(reviews_page) \/ ~HasKey(reviews_page, "data")

\* ReviewFetchFailed with the bug of a failure that discards what the
\* earlier pages of the movie gave.
ReviewFetchFailedDroppingReviews ==
    \E resp \in ReviewResponses :
        /\ NoReviewsPage(FetchReviewsPage(resp))
        /\ ReviewRequested(resp)
        /\ rv_pc' = "RETURNED"
        /\ rv_last_outcome' = "fetch_failed"
        /\ rv_all_reviews' = <<>>
        /\ UNCHANGED <<rv_after_token, rv_has_next, rv_page>>

\* user_review_crawler.py:81-83: the fetch gave no page with data: break.
ReviewFetchFailed ==
    \E resp \in ReviewResponses :
        /\ NoReviewsPage(FetchReviewsPage(resp))
        /\ ReviewRequested(resp)
        /\ rv_pc' = "RETURNED"
        /\ rv_last_outcome' = "fetch_failed"
        /\ UNCHANGED <<rv_after_token, rv_has_next, rv_all_reviews, rv_page>>

\* user_review_crawler.py:109-111: the loop body raised: break.
ReviewPageRaises ==
    \E resp \in ReviewResponses :
        \E reviews_page \in {FetchReviewsPage(resp)} :
            /\ ~NoReviewsPage(reviews_page)
            /\ \E body \in {ReviewLoopBody(reviews_page, rv_all_reviews, rv_movie_id)} :
                   /\ body.raised
                   /\ ReviewRequested(resp)
                   /\ rv_all_reviews' = body.reviews
                   /\ rv_pc' = "RETURNED"
                   /\ rv_last_outcome' = "raised"
                   /\ UNCHANGED <<rv_after_token, rv_has_next, rv_page>>

\* user_review_crawler.py:86-107: a page was processed to the end; the loop
\* breaks when it reports no next page and goes on otherwise.
ReviewPageProcessed ==
    \E resp \in ReviewResponses :
        \E reviews_page \in {FetchReviewsPage(resp)} :
            /\ ~NoReviewsPage(reviews_page)
            /\ \E body \in {ReviewLoopBody(reviews_page, rv_all_reviews, rv_movie_id)} :
                   /\ ~body.raised
                   /\ ReviewRequested(resp)
                   /\ rv_all_reviews' = body.reviews
                   /\ rv_has_next' = body.has_next
                   /\ rv_after_token' = body.after_token
                   /\ rv_pc' = IF Truthy(body.has_next) THEN "FETCHING" ELSE "RETURNED"
                   /\ rv_page' = IF Truthy(body.has_next) THEN rv_page + 1 ELSE rv_page
                   /\ rv_last_outcome' = "ok"

InitReview ==
    pc = "START" /\ Constructed /\ NoCall /\ ReviewStart /\ NoDetailBatch /\ NoReviewBatch

NextReview ==
    \/ ReviewFetchFailed
    \/ ReviewPageRaises
    \/ ReviewPageProcessed

SpecReview == InitReview /\ [][NextReview]_vars

(***************************************************************************)
(* UserReviewCrawler.crawl_movies_reviews: the review batch.  The page     *)
(* loop of each movie is the one above.                                    *)
(***************************************************************************)

\* The most items an input list of the review batch holds.
MaxReviewItems == 2

\* What an item of the input list can be: a detail record, or a record
\* that lacks the key original_title.
ReviewItemKinds == {"record", "no_original_title"}

ReviewItem(i, kind) ==
    CASE kind = "record" ->
             JObj([id |-> JStr(ItemIds[i]), name |-> JStr("N"), original_title |-> JStr("O")])
      [] kind = "no_original_title" ->
             JObj([id |-> JStr(ItemIds[i]), name |-> JStr("N")])

\* What open and json.load give of input_file (user_review_crawler.py:
\* 199-200): an exception, null, or a list of items.
ReviewInputs ==
    {Raise, JNull} \cup
    UNION {{JList([i \in 1..n |-> ReviewItem(i, kinds[i])]) : kinds \in [1..n -> ReviewItemKinds]} :
              n \in 0..MaxReviewItems}

\* _save_reviews (user_review_crawler.py:229-236): the same code as the
\* catalog's _save_progress.
SaveReviews(file, reviews, outcome) == SaveProgress(file, reviews, outcome)

\* crawl_movies_reviews has been entered.
ReviewBatchStart ==
    /\ rc_pc = "READING"
    /\ rc_input \in ReviewInputs
    /\ rc_idx = 0
    /\ rc_all_reviews = <<>>
    /\ rc_file \in {NoFile, PreviousFile}
    /\ rc_ret = JNull
    /\ rc_item_reviews = <<>>
    /\ rc_saves = 0
    /\ rc_last_save = "none"
    /\ rc_visits = <<>>

\* ReviewBatchAborted with the bug of a failure path that saves what it
\* returns.
ReviewBatchAbortedSaving ==
    /\ rc_pc' = "ABORTED"
    /\ rc_ret' = EmptyList
    /\ rc_file' = SaveReviews(rc_file, <<>>, "ok")
    /\ UNCHANGED <<rc_input, rc_idx, rc_all_reviews, rc_item_reviews, rc_saves,
                   rc_last_save, rc_visits>>
    /\ UNCHANGED <<catVars, xVars, rvVars, dVars>>

\* The except clause of crawl_movies_reviews (user_review_crawler.py:
\* 225-227): return [].
ReviewBatchAborted ==
    /\ rc_pc' = "ABORTED"
    /\ rc_ret' = EmptyList
    /\ UNCHANGED <<rc_input, rc_idx, rc_all_reviews, rc_file, rc_item_reviews, rc_saves,
                   rc_last_save, rc_visits>>
    /\ UNCHANGED <<catVars, xVars, rvVars, dVars>>

\* user_review_crawler.py:199-205: the input cannot be read or parsed, or
\* cannot be iterated over.
ReviewReadFails ==
    /\ rc_pc = "READING"
    /\ rc_input.t # "list"
    /\ ReviewBatchAborted

\* user_review_crawler.py:199-202: the input was read.
ReviewReadOk ==
    /\ rc_pc = "READING"
    /\ rc_input.t = "list"
    /\ rc_pc' = "NEXT_ITEM"
    /\ rc_all_reviews' = <<>>
    /\ UNCHANGED <<rc_input, rc_idx, rc_file, rc_ret, rc_item_reviews, rc_saves, rc_last_save,
                   rc_visits>>
    /\ UNCHANGED <<catVars, xVars, rvVars, dVars>>

\* The loop has an item to take.
ReviewItemNext == rc_pc = "NEXT_ITEM" /\ rc_idx < Len(rc_input.l)

\* movie['id'], movie['name'] and movie['original_title']
\* (user_review_crawler.py:206-208) can be read.
HasReviewKeys(movie) ==
    /\ PyIndex(movie, "id") # Raise
    /\ PyIndex(movie, "name") # Raise
    /\ PyIndex(movie, "original_title") # Raise

\* user_review_crawler.py:206-208: a key of the item is missing, which ends
\* the batch.
ReviewItemRaises ==
    /\ ReviewItemNext
    /\ ~HasReviewKeys(rc_input.l[rc_idx + 1])
    /\ ReviewBatchAborted

\* user_review_crawler.py:206-213 and :69-74: the keys are read and
\* get_movie_reviews is entered.
ReviewItemStart ==
    /\ ReviewItemNext
    /\ HasReviewKeys(rc_input.l[rc_idx + 1])
    /\ rc_pc' = "IN_ITEM"
    /\ rv_pc' = "FETCHING"
    /\ rv_movie_id' = PyIndex(rc_input.l[rc_idx + 1], "id")
    /\ rv_after_token' = JStr("")
    /\ rv_has_next' = JBool(TRUE)
    /\ rv_all_reviews' = <<>>
    /\ rv_page' = 1
    /\ rc_visits' = Append(rc_visits, [movie_id |-> rv_movie_id', ended |-> "open"])
    /\ UNCHANGED <<rv_fetch_calls, rv_last_request, rv_last_resp, rv_last_outcome>>
    /\ UNCHANGED <<rc_input, rc_idx, rc_all_reviews, rc_file, rc_ret, rc_item_reviews,
                   rc_saves, rc_last_save>>
    /\ UNCHANGED <<catVars, xVars, dVars>>

\* ExtendReviews with the bug of an accumulator that starts anew with every
\* movie.
ExtendReviewsAnew(all_reviews, movie_reviews) == movie_reviews

\* all_reviews.extend(movie_reviews) (user_review_crawler.py:214)
ExtendReviews(all_reviews, movie_reviews) == all_reviews \o movie_reviews

\* user_review_crawler.py:113 and :213-221: get_movie_reviews has returned;
\* its reviews are added to the accumulator and the accumulator is saved.
ReviewItemDone ==
    /\ rc_pc = "IN_ITEM"
    /\ rv_pc = "RETURNED"
    /\ rc_item_reviews' = Append(rc_item_reviews, rv_all_reviews)
    /\ rc_all_reviews' = ExtendReviews(rc_all_reviews, rv_all_reviews)
    /\ \E outcome \in SaveOutcomes :
           /\ rc_file' = SaveReviews(rc_file, rc_all_reviews', outcome)
           /\ rc_last_save' = outcome
    /\ rc_saves' = rc_saves + 1
    /\ rc_visits' = [rc_visits EXCEPT ![Len(rc_visits)].ended = rv_last_outcome]
    /\ rc_idx' = rc_idx + 1
    /\ rc_pc' = "NEXT_ITEM"
    /\ rv_pc' = "IDLE"
    /\ rv_movie_id' = JNull
    /\ rv_after_token' = JNull
    /\ rv_has_next' = JNull
    /\ rv_all_reviews' = <<>>
    /\ rv_page' = 0
    /\ rv_last_request' = JNull
    /\ rv_last_resp' = NoResponse
    /\ rv_last_outcome' = "none"
    /\ UNCHANGED rv_fetch_calls
    /\ UNCHANGED <<rc_input, rc_ret>>
    /\ UNCHANGED <<catVars, xVars, dVars>>

\* user_review_crawler.py:223: after the last item the accumulator is
\* returned.
ReviewBatchFinished ==
    /\ rc_pc = "NEXT_ITEM"
    /\ rc_idx = Len(rc_input.l)
    /\ rc_pc' = "RETURNED"
    /\ rc_ret' = JList(rc_all_reviews)
    /\ UNCHANGED <<rc_input, rc_idx, rc_all_reviews, rc_file, rc_item_reviews, rc_saves,
                   rc_last_save, rc_visits>>
    /\ UNCHANGED <<catVars, xVars, rvVars, dVars>>

InitReviewBatch ==
    /\ pc = "START" /\ Constructed /\ NoCall /\ NoReviewRun /\ NoDetailBatch
    /\ ReviewBatchStart

NextReviewBatch ==
    \/ ReviewReadFails
    \/ ReviewReadOk
    \/ ReviewItemRaises
    \/ ReviewItemStart
    \/ ReviewFetchFailed
    \/ ReviewPageRaises
    \/ ReviewPageProcessed
    \/ ReviewItemDone
    \/ ReviewBatchFinished

SpecReviewBatch == InitReviewBatch /\ [][NextReviewBatch]_vars

(***************************************************************************)
(* The review batch against a remote whose review lists are finite, under  *)
(* the scheduling of a sequential program.                                 *)
(***************************************************************************)

\* The requests the batch still has to issue at least: every call of
\* get_movie_reviews fetches before anything else (user_review_crawler.py:
\* 76-79), so every item not yet completed stands for one.
RequestsOwed == Len(rc_input.l) - rc_idx

\* A page may announce a further page as long as the requests of the run
\* allow for that page and for one page of every later item.
MayContinue == rv_fetch_calls + 1 + RequestsOwed <= MaxReviewFetch

\* The pageInfo of the pages this remote serves: of a page that goes on, of
\* a last page, and null.
FinitePageInfos == {PageInfo(TRUE, JStr("c1")), PageInfo(FALSE, JStr("c3")), JNull}

\* The page of the response is one of this remote's.
FromFiniteRemote == rv_last_resp'.page_info \in FinitePageInfos

\* ReviewPageRaises on a page of this remote.
FiniteReviewPageRaises == ReviewPageRaises /\ FromFiniteRemote

\* ReviewPageProcessed on a page of this remote, which is not the last
\* page only if a further page can be asked for.
FiniteReviewPageProcessed ==
    /\ ReviewPageProcessed
    /\ FromFiniteRemote
    /\ Truthy(rv_has_next') => MayContinue

InitReviewFinite == InitReviewBatch /\ rc_file = NoFile

NextReviewFinite ==
    \/ ReviewReadFails
    \/ ReviewReadOk
    \/ ReviewItemRaises
    \/ ReviewItemStart
    \/ ReviewFetchFailed
    \/ FiniteReviewPageRaises
    \/ FiniteReviewPageProcessed
    \/ ReviewItemDone
    \/ ReviewBatchFinished

\* A step that can be taken is taken: the program is sequential, and every
\* request is answered or fails.
SpecReviewFinite ==
    InitReviewFinite /\ [][NextReviewFinite]_vars /\ WF_vars(NextReviewFinite)

(***************************************************************************)
(* The two batch phases side by side: a run is a detail batch or a review  *)
(* batch.                                                                  *)
(***************************************************************************)
InitPhases == InitBatch \/ InitReviewBatch

\* The steps of the phase that is running.
NextPhases ==
    \/ d_pc # "IDLE" /\ NextBatch
    \/ rc_pc # "IDLE" /\ NextReviewBatch

SpecPhases == InitPhases /\ [][NextPhases]_vars

(***************************************************************************)
(* The three phases side by side: a run is a catalog crawl, a detail batch *)
(* or a review batch.                                                      *)
(***************************************************************************)
InitCrawl == Init \/ InitBatch \/ InitReviewBatch

\* The steps of the phase that is running.
NextCrawl ==
    \/ pc # "START" /\ CatalogNext
    \/ d_pc # "IDLE" /\ NextBatch
    \/ rc_pc # "IDLE" /\ NextReviewBatch

SpecCrawl == InitCrawl /\ [][NextCrawl]_vars

(***************************************************************************)
(* The claims about the catalog CrawlLoop, checked under Spec.             *)
(***************************************************************************)

\* Some iteration of the loop has ended in failure last.
LastFailed == last_outcome \in {"transport", "http", "challenge", "bad_envelope", "raised"}

\* A step of the loop that issues a request.
FetchStep == fetch_calls' = fetch_calls + 1

\* The endCursor a pageInfo hands out, None when it hands out none.
EndCursorOf(page_info) ==
    IF HasKey(page_info, "endCursor") THEN page_info.o["endCursor"] ELSE JNull

\* Whether a pageInfo reports hasNextPage=false.
ReportsNoNextPage(page_info) ==
    HasKey(page_info, "hasNextPage") /\ page_info.o["hasNextPage"] = JBool(FALSE)

\* Whether a pageInfo reports a next page: a hasNextPage that is true (or
\* any other value Python takes for true).
ReportsNextPage(page_info) ==
    HasKey(page_info, "hasNextPage") /\ Truthy(page_info.o["hasNextPage"])

\* C1: a failed iteration (the fetcher returned nothing, or the loop body
\* raised) leaves the cursor as it was, and the next fetch is given the
\* identical cursor; the first fetch is given none, and the fetch after a
\* processed page is given that page's endCursor, so no page is skipped.
C1_CursorKeptOnFailure ==
    [][FetchStep =>
        /\ last_request'.cursor = after_token
        /\ (last_outcome = "none" => last_request'.cursor = JNull)
        /\ (LastFailed => last_request'.cursor = last_request.cursor)
        /\ (last_outcome = "ok" => last_request'.cursor = EndCursorOf(last_resp.page_info))
        /\ (last_outcome' # "ok" => after_token' = after_token /\ has_next' = has_next)]_vars

\* C1's case: the page after "c1" was fetched and processed after two failed
\* iterations.
C1_Witness ==
    /\ last_outcome = "ok"
    /\ page_errors = 2
    /\ ok_pages = 2
    /\ last_request.cursor = JStr("c1")

\* C2 as stated: the loop is at DONE exactly when the last iteration
\* processed a page that reports hasNextPage=false.
C2_HaltsIffReportedFalse ==
    pc = "DONE" <=> (last_outcome = "ok" /\ ReportsNoNextPage(last_resp.page_info))

\* C2, amended: the loop is at DONE exactly when the last iteration processed
\* a page that does not report a next page (its hasNextPage is false or
\* null, or its pageInfo is absent or has no hasNextPage); it halts on
\* nothing else, and DONE is terminal.
C2_HaltsIffNoNextPageReported ==
    /\ pc = "DONE" <=> (last_outcome = "ok" /\ ~ReportsNextPage(last_resp.page_info))
    /\ pc = "DONE" => ~ENABLED Next

\* C2's case: the loop halted on a third page that reports hasNextPage=false,
\* after a failed iteration, an empty page and a repeated cursor did not
\* halt it.
C2_Witness ==
    /\ pc = "DONE"
    /\ ReportsNoNextPage(last_resp.page_info)
    /\ ok_pages = 3
    /\ page_errors = 1

\* C3: when every iteration succeeded and the loop is at DONE after N pages,
\* it made exactly N fetch calls and the accumulator is the valid records of
\* the N pages, in page order and edge order.
C3_AllPagesCollected ==
    (pc = "DONE" /\ page_errors = 0) =>
        /\ fetch_calls = ok_pages
        /\ all_movies = ok_records

\* C3's case: three pages, the third the last, with records from each.
C3_Witness ==
    /\ pc = "DONE"
    /\ page_errors = 0
    /\ fetch_calls = 3
    /\ Len(all_movies) = 5

\* C5: after a 200 response with a well-formed envelope whose search result
\* has no usable pageInfo (absent, or null), the loop is at DONE, the page was
\* processed and checkpointed and no page error was counted for it.
C5_NoPageInfoIsLastPage ==
    (last_resp.envelope = "page" /\ last_resp.page_info \in {Absent, JNull}) =>
        /\ pc = "DONE"
        /\ last_outcome = "ok"
        /\ saves = ok_pages

\* The part of C5 the code satisfies: a page whose pageInfo is absent.
C5_AbsentPageInfoIsLastPage ==
    (last_resp.envelope = "page" /\ last_resp.page_info = Absent) =>
        /\ pc = "DONE"
        /\ last_outcome = "ok"
        /\ saves = ok_pages

\* C6: _init_session ran in an iteration exactly when its fetch received a
\* non-200 response holding the challenge marker, so the renewal precedes
\* the next request; no other response and no transport failure renews.
C6_RenewalOnChallengeOnly ==
    /\ last_outcome = "none" => ~session_renewed
    /\ last_outcome # "none" =>
          (session_renewed <=>
              (last_resp.kind = "http" /\ last_resp.status # 200 /\ last_resp.challenge))

\* C6's case: the loop waits to retry after a challenge page and a renewal.
C6_Witness ==
    /\ pc = "RETRY_WAIT"
    /\ last_resp.status = 403
    /\ last_resp.challenge
    /\ session_renewed

\* C10: one checkpoint write per processed page and none otherwise; where the
\* loop issues the next fetch after a processed page, and at DONE, the file
\* holds the accumulator, provided the write succeeded.
C10_CheckpointPerPage ==
    /\ saves = ok_pages
    /\ (last_outcome = "ok" /\ last_save = "ok") => progress_file = JList(all_movies)

\* C10's case: the second page is processed and written, the loop goes on.
C10_Witness ==
    /\ pc = "FETCHING"
    /\ last_outcome = "ok"
    /\ last_save = "ok"
    /\ ok_pages = 2
    /\ page_errors = 1
    /\ progress_file = JList(all_movies)
    /\ Len(all_movies) >= 2


\* C18: in every reachable state of the catalog loop no two records of the
\* accumulator have the same id.
C18_IdsUnique ==
    \A i, j \in 1..Len(all_movies) :
        i # j => all_movies[i].o.id # all_movies[j].o.id

\* The step is an iteration whose fetch failed.
FetchFailedStep ==
    FetchStep /\ last_outcome' \in {"transport", "http", "challenge", "bad_envelope"}

\* What the loop keeps over a step.
LoopKept == UNCHANGED <<after_token, has_next, all_movies, progress_file, saves>>

\* Whatever the number of page errors, a waiting loop fetches again and a
\* fetching loop issues its request (up to the requests of the model).
C19_LoopGoesOn ==
    /\ pc = "RETRY_WAIT" => Truthy(has_next) /\ ENABLED RetryWait
    /\ (pc = "FETCHING" /\ fetch_calls < MaxFetch) => ENABLED FetchTransportError

\* A failed fetch leads to the retry wait and the retry wait to the next
\* fetch, both with the cursor, the loop condition, the accumulator and the
\* file as they were and no checkpoint written.
C19_FailureStep ==
    /\ FetchFailedStep => pc' = "RETRY_WAIT" /\ page_errors' = page_errors + 1 /\ LoopKept
    /\ pc = "RETRY_WAIT" => pc' = "FETCHING" /\ LoopKept

\* C19: there is no retry ceiling.  While every fetch fails the loop
\* alternates between fetching and the retry wait and never reaches DONE,
\* with the cursor and the accumulator unchanged and no checkpoint written.
C19_NoRetryCeiling == [](C19_LoopGoesOn) /\ [][C19_FailureStep]_vars

\* C19's case: after a processed page, three failed fetches in a row.
C19_Witness ==
    /\ pc = "RETRY_WAIT"
    /\ ok_pages = 1
    /\ page_errors = 3
    /\ fetch_calls = 4
    /\ saves = 1
    /\ last_outcome \in {"transport", "http", "challenge", "bad_envelope"}

\* The records a step added to the valid records of the pages served.
NewRecords == SubSeq(ok_records', Len(ok_records) + 1, Len(ok_records'))

\* A step that processes a page to its end.
PageStep == ok_pages' = ok_pages + 1

\* C22: a malformed edge never ends its page.  Over a step that processes a
\* page of n edges the growth of the accumulator plus the growth of the
\* error counter is n, the records appended being the valid records of the
\* page; no other step examines an edge, so that a dropped record is counted
\* once and never taken up again.
C22_EveryEdgeExaminedOnce ==
    [][/\ PageStep =>
            /\ Len(all_movies') >= Len(all_movies)
            /\ error_count' >= error_count
            /\ (Len(all_movies') - Len(all_movies)) + (error_count' - error_count)
                   = last_resp'.n_edges
            /\ all_movies' = all_movies \o NewRecords
       /\ ~PageStep => UNCHANGED <<all_movies, error_count>>]_vars

\* C22's case: a processed page of three edges, the first of them dropped
\* and the two after it kept.
C22_Witness ==
    /\ ok_pages = 1
    /\ last_outcome = "ok"
    /\ last_resp.n_edges = 3
    /\ error_count = 1
    /\ Len(all_movies) = 2

\* A request that asks for the first page: it has no "after" variable.
AsksFirstPage(request) == request.after = JNull

\* C25: the request after a processed page that reports a next page carries
\* that page's endCursor as its "after" variable, whatever the endCursor is,
\* and does not ask for the first page again.
C25_NextRequestCarriesEndCursor ==
    [][(FetchStep /\ last_outcome = "ok" /\ ReportsNextPage(last_resp.page_info)) =>
          /\ last_request'.after = EndCursorOf(last_resp.page_info)
          /\ ~AsksFirstPage(last_request')]_vars

\* What the code does: the request carries the endCursor when it is truthy
\* and asks for the first page when it is "", null or missing.
C25_TruthyEndCursorCarried ==
    [][(FetchStep /\ last_outcome = "ok" /\ ReportsNextPage(last_resp.page_info)) =>
          IF Truthy(EndCursorOf(last_resp.page_info))
          THEN last_request'.after = EndCursorOf(last_resp.page_info)
          ELSE AsksFirstPage(last_request')]_vars

\* The valid records of the first k pages of the remote, in page order.
RECURSIVE RemoteRecords(_)
RemoteRecords(k) ==
    IF k = 0 THEN <<>>
    ELSE RemoteRecords(k - 1) \o ValidRecords(RemotePages[k].o.edges.l)

NonEmpty(v) == v # JNull /\ v # JStr("")

\* A step that calls _extract_movie_data.
ExtractStep == x_calls' = x_calls + 1 /\ x_fn' = "_extract_movie_data"

\* C7: a call of _extract_movie_data on any raw edge lets no exception out;
\* it returns either a record whose id and title are both non-empty, the
\* error counter unchanged, or None with the error counter incremented by
\* exactly one.
C7_ExtractNeverRaises ==
    [][ExtractStep =>
        /\ ~x_ret'.raised
        /\ \/ /\ x_ret'.ret = JNull
              /\ error_count' = error_count + 1
           \/ /\ IsObj(x_ret'.ret)
              /\ error_count' = error_count
              /\ NonEmpty(x_ret'.ret.o.id)
              /\ NonEmpty(x_ret'.ret.o.title)]_vars

\* C7's case: a second edge in a row was dropped, this one because the
\* arithmetic on its runtime raised inside the rule.
C7_Witness ==
    /\ x_fn = "_extract_movie_data"
    /\ x_arg = EdgeOf(TitleOf([id |-> JStr("tt1"),
                               titleText |-> JObj([text |-> JStr("A")]),
                               runtime |-> Runtime(JStr("90"))]))
    /\ x_ret = [ret |-> JNull, raised |-> FALSE]
    /\ error_count = 2

\* The genre list as JSON strings.
GenreStrings(names) == JList([i \in 1..Len(names) |-> JStr(names[i])])

\* C8: the record extracted from a complete title whose genres wrapper lists
\* the names in either shape, bare {text: g} or nested {genre: {text: g}},
\* carries these names in order.
C8_BothShapesAccepted ==
    x_fn = "_extract_movie_data" =>
        \A shape \in {"nested", "bare"}, names \in GenreLists :
            x_arg = GenreEdge(JObj([genres |-> JList(Shaped(shape, names))])) =>
                /\ IsObj(x_ret.ret)
                /\ x_ret.ret.o.genres = GenreStrings(names)

\* What the code does of C8: the nested shape gives the names in order, and
\* the items of the bare shape are left out.
C8_NestedShapeOnly ==
    x_fn = "_extract_movie_data" =>
        \A names \in GenreLists :
            /\ x_arg = GenreEdge(JObj([genres |-> JList(Shaped("nested", names))])) =>
                  IsObj(x_ret.ret) /\ x_ret.ret.o.genres = GenreStrings(names)
            /\ x_arg = GenreEdge(JObj([genres |-> JList(Shaped("bare", names))])) =>
                  IsObj(x_ret.ret) /\ x_ret.ret.o.genres = EmptyList

\* The runtime object an evaluation of a runtime expression was given,
\* Absent when the detail payload has none.
RuntimeGiven ==
    IF x_fn = "detail_runtime_minutes"
    THEN IF HasKey(x_arg, "runtime") THEN x_arg.o.runtime ELSE Absent
    ELSE x_arg

\* The seconds given, Absent when there is no runtime or no seconds in it.
SecondsGiven ==
    IF HasKey(RuntimeGiven, "seconds") THEN RuntimeGiven.o.seconds ELSE Absent

RuntimeEvaluated == x_fn \in {"runtime_minutes", "detail_runtime_minutes"}

\* floor(n / 60): the integer m with 60m <= n < 60m + 60.
Floor60(n) ==
    CHOOSE m \in (0 - MaxSeconds - 1)..(MaxSeconds + 1) : 60 * m <= n /\ n < 60 * m + 60

\* C9 as stated: for integer seconds the minutes are floor(seconds / 60), for
\* absent seconds 0, and the result is never negative and never above
\* seconds / 60.
C9_RuntimeFloorNeverNegative ==
    RuntimeEvaluated =>
        /\ (SecondsGiven = Absent /\ RuntimeGiven \in {Absent, JNull, EmptyObj}) =>
              x_ret = JInt(0)
        /\ SecondsGiven.t = "int" =>
              /\ x_ret = JInt(Floor60(SecondsGiven.n))
              /\ x_ret.n >= 0
              /\ 60 * x_ret.n <= SecondsGiven.n

\* C9, amended: for integer seconds the minutes are floor(seconds / 60), for
\* absent seconds 0; the result is never above seconds / 60, and it is not
\* negative unless seconds is negative.
C9_RuntimeIsFloor ==
    RuntimeEvaluated =>
        /\ (SecondsGiven = Absent /\ RuntimeGiven \in {Absent, JNull, EmptyObj}) =>
              x_ret = JInt(0)
        /\ SecondsGiven.t = "int" =>
              /\ x_ret = JInt(Floor60(SecondsGiven.n))
              /\ 60 * x_ret.n <= SecondsGiven.n
              /\ SecondsGiven.n >= 0 => x_ret.n >= 0

\* C9's case: the detail record's runtime for 125 seconds is 2 minutes.
C9_Witness ==
    /\ x_fn = "detail_runtime_minutes"
    /\ x_arg = JObj([runtime |-> Runtime(JInt(125))])
    /\ x_ret = JInt(2)


(***************************************************************************)
(* The claim about the review page loop, checked under SpecReview.         *)
(***************************************************************************)

\* C4: get_movie_reviews leaves its loop only after an iteration that
\* processed a page reporting no next page; a failed page fetch (a non-200
\* status, a transport error, an envelope without data) does not end the
\* loop, it is retried.
C4_ReviewLoopLeavesOnLastPageOnly ==
    rv_pc = "RETURNED" => (rv_last_outcome = "ok" /\ ~Truthy(rv_has_next))

\* What the code does of C4: a failed fetch or a raising page ends the loop
\* at once, with the reviews appended so far and the cursor where it was.
C4_ReviewLoopBreaksOnFailure ==
    /\ rv_last_outcome \in {"fetch_failed", "raised"} => rv_pc = "RETURNED"
    /\ rv_pc = "RETURNED" => rv_last_outcome \in {"ok", "fetch_failed", "raised"}
    /\ (rv_pc = "RETURNED" /\ rv_last_outcome = "ok") => ~Truthy(rv_has_next)


(***************************************************************************)
(* The claim about termination, checked under SpecKill.                    *)
(***************************************************************************)

\* C11: when the process is terminated, also in the middle of a checkpoint
\* write, the checkpoint file holds the complete previous checkpoint or the
\* complete new one.
C11_CheckpointWriteAtomic ==
    [][pc' = "KILLED" => progress_file' \in {progress_file, JList(all_movies')}]_vars

\* What the code does of C11: a termination outside _save_progress leaves the
\* file as it was.
C11_FileKeptOutsideSave ==
    [][(pc' = "KILLED" /\ saves' = saves) => progress_file' = progress_file]_vars


(***************************************************************************)
(* The claims about the detail merge, checked under SpecDetails.           *)
(***************************************************************************)

\* The value at a path of keys, Absent when a key on the way is missing.
RECURSIVE Dig(_, _)
Dig(v, path) ==
    IF path = <<>> THEN v
    ELSE IF HasKey(v, Head(path)) THEN Dig(v.o[Head(path)], Tail(path))
    ELSE Absent

\* A call of get_movie_details gave a record.
DetailsGiven == x_fn = "get_movie_details" /\ IsObj(x_ret)

\* What the payload of the call holds at a path of aboveTheFoldData or of
\* mainColumnData.
Scraped(path) == Dig(x_arg.json_data, <<"props", "pageProps", "aboveTheFoldData">> \o path)

ScrapedMain(path) == Dig(x_arg.json_data, <<"props", "pageProps", "mainColumnData">> \o path)

\* What the catalog record of the call holds under a key.
Catalogued(k) == Dig(x_arg.original_data, <<k>>)

\* A value that is there and is not None, 0 or ''.
IsSet(v) == v \notin {Absent, JNull, JInt(0), JStr("")}

\* v, or d when v is not there.
Default(v, d) == IF v = Absent THEN d ELSE v

\* The merged value of a field: the scraped one when set, else the fallback.
Merged(scraped, fallback) == IF IsSet(scraped) THEN scraped ELSE fallback

\* C12 as stated: rating, votes, name and original title of the merged record
\* are the scraped values when truthy, else the catalog record's rating,
\* votes, title and original title.
C12_MergeFallsBackToCatalog ==
    DetailsGiven =>
        /\ x_ret.o.rating = Merged(Scraped(<<"ratingsSummary", "aggregateRating">>),
                                   Default(Catalogued("rating"), JNull))
        /\ x_ret.o.votes = Merged(Scraped(<<"ratingsSummary", "voteCount">>),
                                  Default(Catalogued("votes"), JNull))
        /\ x_ret.o.name = Merged(Scraped(<<"titleText", "text">>), Catalogued("title"))
        /\ Catalogued("original_title") # Absent =>
              x_ret.o.original_title = Merged(Scraped(<<"originalTitleText", "text">>),
                                              Catalogued("original_title"))

\* C12, amended: rating, votes and name are the scraped values when truthy,
\* else the catalog record's rating, votes and title (None when the record
\* has no rating or votes); the original title is the scraped one when
\* truthy, else the merged name.
C12_MergeFallsBack ==
    DetailsGiven =>
        /\ x_ret.o.rating = Merged(Scraped(<<"ratingsSummary", "aggregateRating">>),
                                   Default(Catalogued("rating"), JNull))
        /\ x_ret.o.votes = Merged(Scraped(<<"ratingsSummary", "voteCount">>),
                                  Default(Catalogued("votes"), JNull))
        /\ x_ret.o.name = Merged(Scraped(<<"titleText", "text">>), Catalogued("title"))
        /\ x_ret.o.original_title = Merged(Scraped(<<"originalTitleText", "text">>),
                                           x_ret.o.name)

\* C12's case: the catalog record has votes=500 and a title, the scrape
\* reports 0 votes and no titles; the merged record has votes 500 and the
\* catalog title as name and as original title.
C12_Witness ==
    /\ DetailsGiven
    /\ Scraped(<<"ratingsSummary", "voteCount">>) = JInt(0)
    /\ Scraped(<<"titleText">>) = Absent
    /\ Catalogued("votes") = JInt(500)
    /\ Catalogued("original_title") = JStr("OT")
    /\ x_ret.o.votes = JInt(500)
    /\ x_ret.o.name = JStr("T")
    /\ x_ret.o.original_title = JStr("T")

\* The fields of the merged record other than rating, votes, name and
\* original title, by the key the catalog record has for them.
OtherFields ==
    {"year", "genres", "runtime_minutes", "plot", "primary_image", "countries",
     "certificate", "user_reviews_count", "critic_reviews_count", "popularity_rank"}

\* C13 as stated: no field of the merged record other than rating, votes,
\* name and original title is the catalog record's.
C13_OtherFieldsOnlyScraped ==
    DetailsGiven =>
        \A f \in OtherFields : Catalogued(f) # Absent => x_ret.o[f] # Catalogued(f)

\* C13, amended: year, runtime, countries, certificate, review counts and
\* popularity rank are taken from the payload alone (their defaults when the
\* payload lacks them); genres, plot and cover image are taken from the
\* catalog record alone (their defaults when the record lacks them).
C13_FieldSources ==
    DetailsGiven =>
        /\ x_ret.o.year = Default(Scraped(<<"releaseYear", "year">>), JStr(""))
        /\ x_ret.o.runtime_minutes =
              IF Scraped(<<"runtime", "seconds">>) = JInt(125) THEN JInt(2) ELSE JInt(0)
        /\ x_ret.o.countries =
              IF ScrapedMain(<<"countriesOfOrigin">>) = Absent THEN EmptyList
              ELSE JList(<<JStr("VN"), JStr("FR")>>)
        /\ x_ret.o.certificate = Default(Scraped(<<"certificate", "rating">>), JStr(""))
        /\ x_ret.o.user_reviews_count = Default(Scraped(<<"reviews", "total">>), JInt(0))
        /\ x_ret.o.critic_reviews_count = Default(Scraped(<<"criticReviews", "total">>), JInt(0))
        /\ x_ret.o.popularity_rank = Default(Scraped(<<"meterRanking", "currentRank">>), JNull)
        /\ x_ret.o.genres = Default(Catalogued("genres"), EmptyList)
        /\ x_ret.o.plot = Default(Catalogued("plot"), JStr(""))
        /\ x_ret.o.primary_image = Default(Catalogued("primary_image"), JStr(""))

\* C13's case: the payload lacks every section a full catalog record has a
\* value for; the merged record has the defaults where the payload decides
\* and the catalog's genres, plot and cover image.
C13_Witness ==
    /\ DetailsGiven
    /\ Scraped(<<"releaseYear">>) = Absent
    /\ Catalogued("year") = JInt(1999)
    /\ x_ret.o.year = JStr("")
    /\ x_ret.o.countries = EmptyList
    /\ x_ret.o.genres = JList(<<JStr("old-genre")>>)
    /\ x_ret.o.plot = JStr("old-plot")


(***************************************************************************)
(* The claims about the detail batch, checked under SpecBatch.             *)
(***************************************************************************)

\* The items of the input list.
Items == d_input.l

\* The item at position k has an id.
HasId(k) == IsObj(Items[k]) /\ Truthy(ItemId(Items[k]))

\* The checkpoints of a list of n items as claimed: one after every
\* multiple of 5, then the final one.
ExpectedCheckpoints(n) ==
    [i \in 1..(n \div CheckpointEvery) |-> [after |-> CheckpointEvery * i, final |-> FALSE]]
    \o <<[after |-> n, final |-> TRUE]>>

\* C14: when process_movies_file has returned from a list of N items, the
\* checkpoints written are those after every item k that is a multiple of 5,
\* followed by the final one after item N, for every input list, whatever
\* its items are.
C14_CheckpointAtMultiplesAndEnd ==
    d_pc = "RETURNED" => d_checkpoints = ExpectedCheckpoints(Len(Items))

\* What the code does: the periodic checkpoint after item k is written when
\* k is a multiple of 5 and item k has an id.
C14_CheckpointAtMultiplesWithId ==
    d_pc = "RETURNED" =>
        d_checkpoints =
            SelectSeq(ExpectedCheckpoints(Len(Items)), LAMBDA c : c.final \/ HasId(c.after))

\* The ids of the items with an id among the first k items, in input order.
RECURSIVE IdsUpTo(_)
IdsUpTo(k) ==
    IF k = 0 THEN <<>>
    ELSE IdsUpTo(k - 1) \o (IF HasId(k) THEN <<ItemId(Items[k])>> ELSE <<>>)

\* The attempts that gave a record, as pairs of the id asked for and the
\* record.
Successes == SelectSeq(d_outcomes, LAMBDA details : details # JNull)

\* The batch is past the reading of its input.
InBatch == d_pc \in {"LOOP", "RETURNED", "ABORTED", "EXITED"} /\ d_input.t = "list"

\* Every item of the input is a JSON object.
AllObjects == \A k \in 1..Len(Items) : IsObj(Items[k])

\* C15 as stated: whenever process_movies_file has ended, every item of
\* the input list that has an id was attempted exactly once, in input
\* order, and what it returned is the sequence of the records of the
\* attempts that succeeded.
C15_EveryItemWithIdAttempted ==
    InBatch /\ d_pc \in {"RETURNED", "ABORTED"} =>
        /\ d_attempts = IdsUpTo(Len(Items))
        /\ d_ret = JList(Successes)

\* What holds of the batch in every state.
C15_Attempts ==
    InBatch =>
        /\ d_attempts = IdsUpTo(d_idx)
        /\ Len(d_outcomes) = Len(d_attempts)
        /\ detailed_movies = Successes
        /\ \A i \in 1..Len(d_outcomes) :
               d_outcomes[i] # JNull => d_outcomes[i].o.id = d_attempts[i]
        /\ d_pc = "RETURNED" => d_idx = Len(Items) /\ d_ret = JList(detailed_movies)
        /\ d_pc = "ABORTED" =>
               d_idx < Len(Items) /\ ~IsObj(Items[d_idx + 1]) /\ d_ret = EmptyList
        /\ AllObjects => d_pc # "ABORTED"

\* What holds of every step that attempts an enrichment: the loop goes on
\* to the next item, whatever the attempt gave.
C15_AttemptStep ==
    d_navigations' # d_navigations =>
        d_pc' = "LOOP" /\ d_idx' = d_idx + 1 /\ d_navigations' = d_navigations + 1

\* C15: a failed enrichment never ends the batch.  Of the items the loop
\* has taken, those with an id were attempted exactly once, in input order;
\* the accumulator is the sequence of the records of the attempts that
\* succeeded, one for its item; a batch that returns normally has taken
\* every item and returns the accumulator; the batch is ended early only
\* by an item that is not a JSON object, and then returns the empty list.
C15_FailedEnrichmentSkipsItem == [](C15_Attempts) /\ [][C15_AttemptStep]_vars

\* A batch returned after a failed attempt, a later successful one and a
\* skipped item.
C15_Witness ==
    /\ d_pc = "RETURNED"
    /\ Len(d_outcomes) >= 3
    /\ d_outcomes[1] = JNull
    /\ d_outcomes[2] # JNull
    /\ Len(Items) > Len(d_attempts)
    /\ Len(detailed_movies) < Len(d_attempts)

\* process_movies_file has been left.
BatchLeft == d_pc \in {"RETURNED", "ABORTED", "EXITED"}

\* Once the driver is quit it stays quit and nothing is navigated to.
NoUseAfterQuit ==
    d_driver = "quit" => d_driver' = "quit" /\ d_navigations' = d_navigations

\* C16: once process_movies_file has been entered the driver is eventually
\* quit; it is quit whenever the batch has been left, whether by its normal
\* end, by a failure to read the input or by an exception in the loop; and
\* after the quit no page is navigated to.
C16_DriverReleased ==
    /\ <>(d_driver = "quit")
    /\ [](BatchLeft => d_driver = "quit")
    /\ [][NoUseAfterQuit]_vars

\* The batch was ended by an exception in the loop, after some page was
\* loaded, and the driver is quit.
C16_Witness ==
    /\ d_pc = "ABORTED"
    /\ d_input.t = "list"
    /\ d_navigations > 0
    /\ d_driver = "quit"

\* A step that calls get_movie_details.
AttemptStep == d_navigations' # d_navigations

\* What the call of the step returned.
Returned == d_outcomes'[Len(d_outcomes')]

\* C24: the debug dump is attempted exactly in the calls of
\* get_movie_details in which the extraction raised, not in those that gave
\* up on a payload without raising and not in those that gave a record.
\* Whether the dump was written or failed, the call returns None, the
\* accumulator is as before and the loop goes on to the next item.
C24_DumpIsBestEffort ==
    [][AttemptStep =>
          /\ d_last_attempt'.snapshot # "none" <=> d_last_attempt'.json_data = Raise
          /\ d_last_attempt'.snapshot # "none" =>
                 /\ Returned = JNull
                 /\ detailed_movies' = detailed_movies
                 /\ d_pc' = "LOOP"
                 /\ d_idx' = d_idx + 1]_vars

\* C24's case: the dump of the last call failed; the loop is at its next
\* item with the records it had.
C24_Witness ==
    /\ d_last_attempt.snapshot = "failed"
    /\ d_pc = "LOOP"
    /\ d_idx < Len(d_input.l)
    /\ detailed_movies # <<>>
    /\ d_outcomes[Len(d_outcomes)] = JNull

(***************************************************************************)
(* The claims about the review batch, checked under SpecReviewBatch.       *)
(***************************************************************************)

RECURSIVE Concat(_)
Concat(lists) == IF lists = <<>> THEN <<>> ELSE Head(lists) \o Concat(Tail(lists))

\* The review batch is past the reading of its input.
InReviewBatch == rc_pc \in {"NEXT_ITEM", "IN_ITEM", "RETURNED", "ABORTED"} /\ rc_input.t = "list"

\* s is a prefix of t.
IsPrefix(s, t) == Len(s) <= Len(t) /\ SubSeq(t, 1, Len(s)) = s

\* What holds of the review batch in every state.
C17_Accumulated ==
    InReviewBatch =>
        /\ rc_saves = rc_idx
        /\ Len(rc_item_reviews) = rc_idx
        /\ rc_all_reviews = Concat(rc_item_reviews)
        /\ rc_last_save = "ok" => rc_file = JList(Concat(rc_item_reviews))
        /\ \A i \in 1..Len(rc_item_reviews) :
               \A j \in 1..Len(rc_item_reviews[i]) :
                   rc_item_reviews[i][j].o.movie_id = PyIndex(rc_input.l[i], "id")

\* What holds of every step: the accumulator only grows at its end, and
\* the checkpoint is written by the step that completes an item and by no
\* other.
C17_Step ==
    /\ rc_pc \in {"NEXT_ITEM", "IN_ITEM"} => IsPrefix(rc_all_reviews, rc_all_reviews')
    /\ rc_saves' # rc_saves =>
           rc_saves' = rc_saves + 1 /\ rc_idx' = rc_idx + 1 /\ rv_pc = "RETURNED"
    /\ rc_saves' = rc_saves => rc_file' = rc_file /\ rc_idx' = rc_idx

\* C17: the accumulator of crawl_movies_reviews spans the whole run: after
\* item k it is the concatenation, in input order, of the reviews
\* get_movie_reviews returned for items 1..k.  The checkpoint is written
\* exactly once per item, after its page loop, and a checkpoint that
\* succeeds leaves the file holding that concatenation; reviews of earlier
\* items are never removed or reordered.
C17_AccumulatorSpansRun == [](C17_Accumulated) /\ [][C17_Step]_vars

\* Two items done, both with reviews, the second checkpoint written.
C17_Witness ==
    /\ rc_idx = 2
    /\ rc_saves = 2
    /\ rc_last_save = "ok"
    /\ rc_item_reviews[1] # <<>>
    /\ rc_item_reviews[2] # <<>>

(***************************************************************************)
(* The claim about a batch phase ended by an exception, checked under      *)
(* SpecPhases.                                                             *)
(***************************************************************************)

\* The records of the attempts on the first k items that succeeded.
SuccessesUpTo(k) ==
    SelectSeq(SubSeq(d_outcomes, 1, Len(IdsUpTo(k))), LAMBDA details : details # JNull)

\* The files left by a previous run.
FilesBefore == {NoFile, PreviousFile}

\* A detail batch ended by an exception: the file is as the last checkpoint
\* write left it.
DetailFileKept ==
    (d_pc = "ABORTED" /\ d_input.t = "list") =>
        /\ d_checkpoints = <<>> => d_file \in FilesBefore
        /\ (d_checkpoints # <<>> /\ d_last_save = "ok") =>
               d_file = JList(SuccessesUpTo(d_checkpoints[Len(d_checkpoints)].after))

\* A review batch ended by an exception: the file is as the last checkpoint
\* write left it.
ReviewFileKept ==
    (rc_pc = "ABORTED" /\ rc_input.t = "list") =>
        /\ rc_saves = 0 => rc_file \in FilesBefore
        /\ (rc_saves > 0 /\ rc_last_save = "ok") => rc_file = JList(Concat(rc_item_reviews))

\* The step on which a phase is ended by an exception, and every step after
\* it, leaves the file alone and takes no further item.
AbortStep ==
    /\ (d_pc' = "ABORTED" \/ d_pc = "ABORTED") =>
           UNCHANGED <<d_file, d_idx, d_navigations, d_checkpoints, detailed_movies>>
    /\ rc_pc' = "ABORTED" =>
           UNCHANGED <<rc_file, rc_idx, rc_saves, rv_fetch_calls, rc_all_reviews>>

\* C20: when an exception outside the extraction and fetch boundaries ends
\* the detail or the review phase in the middle of its batch, the phase
\* takes no further item and its file holds exactly what the last completed
\* checkpoint write left in it; the failure path does not write the file.
C20_FileKeptOnAbort == [](DetailFileKept /\ ReviewFileKept) /\ [][AbortStep]_vars

\* C20's case: a review batch ended by an item without original_title,
\* after the reviews of its first item were saved.
C20_Witness ==
    /\ rc_pc = "ABORTED"
    /\ rc_saves = 1
    /\ rc_last_save = "ok"
    /\ rc_all_reviews # <<>>
    /\ rc_file = JList(rc_all_reviews)
    /\ rc_ret = EmptyList

(***************************************************************************)
(* The claim about a failed checkpoint write, checked under SpecCrawl.     *)
(***************************************************************************)

\* The has-more flag the loop takes from a pageInfo.
HasNextOf(page_info) ==
    IF HasKey(page_info, "hasNextPage") THEN page_info.o["hasNextPage"] ELSE JBool(FALSE)

\* A step of the catalog loop whose checkpoint write failed: the page counts
\* as processed, its records are in the accumulator, the cursor and the
\* has-more flag are the page's, no page error is counted and the loop
\* condition decides as ever.
CatalogSaveFailedStep ==
    (saves' = saves + 1 /\ last_save' # "ok") =>
        /\ last_outcome' = "ok"
        /\ all_movies' = all_movies \o NewRecords
        /\ after_token' = EndCursorOf(last_resp'.page_info)
        /\ has_next' = HasNextOf(last_resp'.page_info)
        /\ page_errors' = page_errors
        /\ error_count' + Len(NewRecords) = error_count + last_resp'.n_edges
        /\ pc' = IF Truthy(has_next') THEN "FETCHING" ELSE "DONE"

\* A step of the detail batch whose checkpoint write failed: the
\* accumulator is the records of the successful attempts, and the batch goes
\* on to the next item, or returns the accumulator after the final write.
DetailSaveFailedStep ==
    (d_checkpoints' # d_checkpoints /\ d_last_save' # "ok") =>
        /\ detailed_movies' = SelectSeq(d_outcomes', LAMBDA details : details # JNull)
        /\ IF d_pc' = "RETURNED"
           THEN /\ d_idx' = d_idx /\ d_idx = Len(d_input.l)
                /\ detailed_movies' = detailed_movies
                /\ d_ret' = JList(detailed_movies)
           ELSE d_pc' = "LOOP" /\ d_idx' = d_idx + 1

\* A step of the review batch whose checkpoint write failed: the reviews of
\* the item are in the accumulator and the batch goes on to the next item.
ReviewSaveFailedStep ==
    (rc_saves' = rc_saves + 1 /\ rc_last_save' # "ok") =>
        /\ rc_all_reviews' = rc_all_reviews \o rv_all_reviews
        /\ rc_idx' = rc_idx + 1
        /\ rc_pc' = "NEXT_ITEM"

\* C21: a checkpoint write that fails is caught in the writer.  The step it
\* belongs to leaves the accumulator, the cursor, the has-more flag and the
\* error counters as a successful write would, and the loop goes on to the
\* next page or item, in the catalog crawl, the detail batch and the review
\* batch.
C21_FailedSaveChangesNothing ==
    [][CatalogSaveFailedStep /\ DetailSaveFailedStep /\ ReviewSaveFailedStep]_vars

\* C21's case: the write of the second page failed and left the file torn;
\* the loop is at its next fetch with the records of both pages.
C21_Witness ==
    /\ pc = "FETCHING"
    /\ ok_pages = 2
    /\ saves = 2
    /\ last_save = "write_error"
    /\ progress_file = TornFile
    /\ page_errors = 0
    /\ Len(all_movies) >= 3

(***************************************************************************)
(* The claim about the fetchers, checked under SpecCrawl.                  *)
(***************************************************************************)

\* The iterations the catalog loop has ended.
Iterations == ok_pages + page_errors

\* A call of _fetch_movies_page issues one request and gives the loop a
\* page or a failure; a call that renewed the session gives a failure.
CatalogFetchStep ==
    fetch_calls' # fetch_calls =>
        /\ fetch_calls' = fetch_calls + 1
        /\ ok_pages' + page_errors' = Iterations + 1
        /\ last_outcome' = "ok" \/ pc' = "RETRY_WAIT"
        /\ session_renewed' => pc' = "RETRY_WAIT" /\ last_outcome' = "challenge"

\* A call of _fetch_reviews_page issues one request; a response that is not
\* a 200 gives the loop a failure, on which it breaks.
ReviewFetchStep ==
    rv_fetch_calls' # rv_fetch_calls =>
        /\ rv_fetch_calls' = rv_fetch_calls + 1
        /\ rv_last_resp'.status # 200 =>
               rv_pc' = "RETURNED" /\ rv_last_outcome' = "fetch_failed"

\* C23: the fetchers never retry by themselves.  Every call of
\* _fetch_movies_page or _fetch_reviews_page issues exactly one request and
\* returns the decoded page or a failure, also when a challenge page made it
\* renew the session; the requests of the catalog loop are as many as its
\* iterations, so every repeated request is the loop's.
C23_OneRequestPerFetch ==
    /\ [](pc # "START" => fetch_calls = Iterations)
    /\ [][CatalogFetchStep /\ ReviewFetchStep]_vars

\* C23's case: two requests, the second answered by a challenge page, on
\* which the fetcher renewed the session and returned a failure.
C23_Witness ==
    /\ fetch_calls = 2
    /\ ok_pages = 1
    /\ page_errors = 1
    /\ last_outcome = "challenge"
    /\ session_renewed
    /\ pc = "RETRY_WAIT"

(***************************************************************************)
(* The review batch: a failed page and the items after it.                 *)
(***************************************************************************)

\* The movie_id of every call of get_movie_reviews so far, in order.
VisitedIds == [i \in 1..Len(rc_visits) |-> rc_visits[i].movie_id]

\* The ids of the first n items of the input.
InputIds(n) == [i \in 1..n |-> PyIndex(rc_input.l[i], "id")]

\* The review batch has returned.
ReviewBatchLeft == rc_pc \in {"RETURNED", "ABORTED"}

\* The calls of get_movie_reviews are the items of the input, one call per
\* item and in the order of the input; every completed item was saved; the
\* batch returns after the last item, and gives up only on an item whose
\* keys cannot be read.
VisitedInOrder ==
    InReviewBatch =>
        /\ VisitedIds = InputIds(Len(rc_visits))
        /\ Len(rc_visits) = rc_idx + (IF rc_pc = "IN_ITEM" THEN 1 ELSE 0)
        /\ rc_saves = rc_idx
        /\ Len(rc_item_reviews) = rc_idx
        /\ rc_pc = "RETURNED" => rc_idx = Len(rc_input.l)
        /\ rc_pc = "ABORTED" =>
               rc_idx < Len(rc_input.l) /\ ~HasReviewKeys(rc_input.l[rc_idx + 1])

\* A page of the item failed: the fetch gave no page, or the processing of
\* the page raised.
PageFailedStep ==
    rv_fetch_calls' = rv_fetch_calls + 1 /\ rv_last_outcome' \in {"fetch_failed", "raised"}

\* A failed page ends the page loop of its item and nothing else: what the
\* earlier pages gave is kept, and the batch is where it was.
FailedPageEndsItemOnly ==
    PageFailedStep =>
        /\ rv_pc' = "RETURNED"
        /\ IsPrefix(rv_all_reviews, rv_all_reviews')
        /\ rv_last_outcome' = "fetch_failed" => rv_all_reviews' = rv_all_reviews
        /\ UNCHANGED rcVars

\* However the page loop of an item ended, the batch goes on with it in one
\* way: what the loop collected is appended to the accumulator, the
\* accumulator is saved, and the next item is up.
ItemEndStep ==
    (rc_pc = "IN_ITEM" /\ rv_pc = "RETURNED") =>
        /\ rc_all_reviews' = rc_all_reviews \o rv_all_reviews
        /\ rc_item_reviews' = Append(rc_item_reviews, rv_all_reviews)
        /\ rc_saves' = rc_saves + 1
        /\ rc_idx' = rc_idx + 1
        /\ rc_pc' = "NEXT_ITEM"
        /\ rc_visits'[Len(rc_visits)].ended = rv_last_outcome

\* C27: a fetch or processing failure on a page of one item of the review
\* batch affects that item only.  The reviews of the item's earlier pages
\* are kept and appended to the accumulator, the item's checkpoint is
\* written, every item of the input is visited once and in order, and the
\* batch returns for every finite input and finite review lists, whichever
\* requests fail.
C27_PageFailureStaysInItem ==
    /\ [](VisitedInOrder)
    /\ [][FailedPageEndsItemOnly /\ ItemEndStep]_vars
    /\ <>(ReviewBatchLeft)

\* C27's case: the second page of the first item could not be fetched; the
\* batch returned with the reviews of its first page and those of the
\* second item, after a save for each.
C27_Witness ==
    /\ rc_pc = "RETURNED"
    /\ Len(rc_visits) = 2
    /\ rc_visits[1].ended = "fetch_failed"
    /\ rc_visits[2].ended = "ok"
    /\ Len(rc_item_reviews[1]) >= 1
    /\ Len(rc_item_reviews[2]) >= 1
    /\ rc_saves = 2
    /\ rc_all_reviews = rc_item_reviews[1] \o rc_item_reviews[2]
=============================================================================
